---- MODULE Spec2Model ----
(***************************************************************************)
(* Server Monitoring Made Easy: the Monitor debounce state machine         *)
(* (app/core/monitor.py), the metric sources (app/monitors), the driving   *)
(* loop (app/cli.py monitor_loop), the AlertManager (app/core/alerts.py),  *)
(* the alert stores (app/core/storage_file.py, storage_postgres.py) and    *)
(* the start of the process (app/cli.py start, app/db.py init_db).         *)
(*                                                                         *)
(* Python's None is modelled as the empty sequence, a present value v as   *)
(* <<v>>.  A missing alert (check() returning None) is the record NoAlert. *)
(***************************************************************************)
EXTENDS Integers, Sequences, FiniteSets, TLC

\* ------------------------------------------------------------------------
\* Bounds of the model
\* ------------------------------------------------------------------------
\* number of check() calls of one Monitor instance that are followed
MaxCalls == 4
\* the wall clock runs from StartTime to MaxTime (seconds)
MaxTime == 4

\* ------------------------------------------------------------------------
\* Configurations and measurements drawn on
\* ------------------------------------------------------------------------
Intervals == {0, 2}
\* time.time() when the process starts: no smaller than any interval, so
\* that a new Monitor (last_check = 0) is due at once
StartTime == CHOOSE i \in Intervals : \A j \in Intervals : j <= i
Thresholds == {80, 85}
AlertCounts == 0..3
Measurements == {70, 82, 85, 90}
\* seconds a collect() may block (psutil.cpu_percent(interval=1))
CollectDurations == {0, 1}

VARIABLES
    \* Monitor fields (app/core/monitor.py Monitor.__init__)
    name, enabled, interval, threshold, alert_count,
    \* the class of the Monitor, which gives collect and check_threshold
    monitor_class,
    last_check, last_value, alert_state, consecutive_failures,
    \* the wall clock read by time.time()
    now,
    \* record of the check() calls made on the Monitor since construction:
    \* what collect() produced and what check() returned
    calls,
    \* the most recent check() call: what collect() produced, what it returned
    last_call,
    \* monitor_loop: what the last iteration did
    tick,
    \* AlertManager.active_alerts, monitor name -> alert
    active_alerts,
    \* the JSON document of FileAlertStorage and its pruning configuration
    file, pruning_config,
    \* the class of AlertManager.storage, and the rows of the alerts table
    \* of PostgresAlertStorage
    storage, table,
    \* the last _prune_alerts call on its own: whether one was made, and
    \* the document it returned
    pruned,
    \* starting the process: how far it got, the configured storage type,
    \* and the connection retry loops of init_db and PostgresAlertStorage
    startup,
    \* the last process_alert call: the alert, the active-alert map before
    \* it, and the storage and notifier calls it made
    pa,
    \* number of process restarts so far
    restarts,
    \* the last call made on the storage or on a query method of the
    \* AlertManager: the method, its arguments, the document before it and
    \* what it returned
    query

config == <<name, enabled, interval, threshold, alert_count, monitor_class>>
monitor_state == <<last_check, last_value, alert_state, consecutive_failures>>
manager == <<tick, active_alerts, file, pruning_config, storage, table,
             pruned, startup, pa, restarts, query>>

vars == <<config, monitor_state, now, calls, last_call, manager>>

Last(s) == s[Len(s)]

None == <<>>
Some(v) == <<v>>

\* ------------------------------------------------------------------------
\* Alerts (the dictionaries Monitor.check returns)
\* ------------------------------------------------------------------------
NoAlert == [state |-> "NONE"]

FiringAlert(m, v, thr, ts, cf) ==
    [monitor |-> m, state |-> "FIRING", value |-> v, threshold |-> thr,
     timestamp |-> ts, consecutive_failures |-> cf]

OkAlert(m, v, thr, ts) ==
    [monitor |-> m, state |-> "OK", value |-> v, threshold |-> thr,
     timestamp |-> ts]

ErrorAlert(m, ts) ==
    [monitor |-> m, state |-> "ERROR", error |-> "collect", timestamp |-> ts]

\* what collect() produced in a call of check()
Sampled(v) == [kind |-> "value", value |-> v]
Faulted == [kind |-> "fault", value |-> 0]
Skipped == [kind |-> "skip", value |-> 0]

\* check() not called yet
NoCheck == [sample |-> Skipped, ret |-> NoAlert]

\* ------------------------------------------------------------------------
\* Metric source: CPUMonitor.check_threshold
\* ------------------------------------------------------------------------
check_threshold_lt(value, thr) == value < thr

check_threshold(value, thr) == value > thr

\* ------------------------------------------------------------------------
\* Monitor.should_check
\* ------------------------------------------------------------------------
should_check_always(t, lc, iv) == TRUE

should_check(t, lc, iv) == t - lc >= iv

\* ------------------------------------------------------------------------
\* Monitor.check, the three branches after collect()
\* ------------------------------------------------------------------------
\* breaching sample: count it, fire once when the count is reached
Breach_refire(cf, st, ac) ==
    [consecutive_failures |-> cf + 1,
     alert_state |-> IF cf + 1 >= ac THEN "FIRING" ELSE st,
     emit |-> IF cf + 1 >= ac THEN "FIRING" ELSE "NONE"]

Breach_early(cf, st, ac) ==
    [consecutive_failures |-> cf + 1,
     alert_state |-> IF cf + 1 >= ac - 1 /\ st = "OK" THEN "FIRING" ELSE st,
     emit |-> IF cf + 1 >= ac - 1 /\ st = "OK" THEN "FIRING" ELSE "NONE"]

Breach(cf, st, ac) ==
    [consecutive_failures |-> cf + 1,
     alert_state |-> IF cf + 1 >= ac /\ st = "OK" THEN "FIRING" ELSE st,
     emit |-> IF cf + 1 >= ac /\ st = "OK" THEN "FIRING" ELSE "NONE"]

\* non-breaching sample: reset the count, resolve when firing
NoBreach_keep(cf, st) ==
    [consecutive_failures |-> IF st = "FIRING" THEN 0 ELSE cf,
     alert_state |-> "OK",
     emit |-> IF st = "FIRING" THEN "OK" ELSE "NONE"]

NoBreach(cf, st) ==
    [consecutive_failures |-> 0,
     alert_state |-> IF st = "FIRING" THEN "OK" ELSE st,
     emit |-> IF st = "FIRING" THEN "OK" ELSE "NONE"]

\* collect() raised: the except branch
CollectError_counted(cf, st, ac) ==
    [consecutive_failures |-> cf + 1,
     alert_state |-> st,
     emit |-> "ERROR"]

CollectError_debounced(cf, st, ac) ==
    [consecutive_failures |-> cf,
     alert_state |-> st,
     emit |-> IF st = "FIRING" THEN "NONE" ELSE "ERROR"]

CollectError(cf, st, ac) ==
    [consecutive_failures |-> cf,
     alert_state |-> st,
     emit |-> "ERROR"]

\* the dictionary check() returns for an emission
AlertFor(emit, m, v, thr, ts, cf) ==
    CASE emit = "FIRING" -> FiringAlert(m, v, thr, ts, cf)
      [] emit = "OK" -> OkAlert(m, v, thr, ts)
      [] emit = "ERROR" -> ErrorAlert(m, ts)
      [] OTHER -> NoAlert

\* ------------------------------------------------------------------------
\* Monitor.__init__
\* ------------------------------------------------------------------------
MonitorInit ==
    /\ last_check = 0
    /\ last_value = None
    /\ alert_state = "OK"
    /\ consecutive_failures = 0

\* ------------------------------------------------------------------------
\* Monitor.check; t0 is the time of the call, t1 the time collect() returns
\* ------------------------------------------------------------------------
\* enabled = False: return None
CheckDisabled_checked ==
    /\ ~enabled
    /\ last_call' = [sample |-> Skipped, ret |-> NoAlert]
    /\ last_check' = now
    /\ UNCHANGED <<config, last_value, alert_state, consecutive_failures>>

CheckDisabled ==
    /\ ~enabled
    /\ last_call' = [sample |-> Skipped, ret |-> NoAlert]
    /\ UNCHANGED <<config, monitor_state>>

\* should_check() is False: return None
CheckNotDue(t0) ==
    /\ enabled
    /\ ~should_check(t0, last_check, interval)
    /\ last_call' = [sample |-> Skipped, ret |-> NoAlert]
    /\ UNCHANGED <<config, monitor_state>>

\* collect() returns v; the sample is evaluated
CheckSample(v, t0, t1) ==
    /\ enabled
    /\ should_check(t0, last_check, interval)
    /\ LET r == IF check_threshold(v, threshold)
                THEN Breach(consecutive_failures, alert_state, alert_count)
                ELSE NoBreach(consecutive_failures, alert_state)
       IN /\ last_check' = t1
          /\ last_value' = Some(v)
          /\ consecutive_failures' = r.consecutive_failures
          /\ alert_state' = r.alert_state
          /\ last_call' =
                 [sample |-> Sampled(v),
                  ret |-> AlertFor(r.emit, name, v, threshold, t1,
                                   r.consecutive_failures)]
    /\ UNCHANGED config

\* collect() raises
CheckCollectFault_advanced(t0, t1) ==
    /\ enabled
    /\ should_check(t0, last_check, interval)
    /\ LET r == CollectError(consecutive_failures, alert_state, alert_count)
       IN /\ consecutive_failures' = r.consecutive_failures
          /\ alert_state' = r.alert_state
          /\ last_call' =
                 [sample |-> Faulted,
                  ret |-> AlertFor(r.emit, name, 0, threshold, t1,
                                   r.consecutive_failures)]
    /\ last_check' = t1
    /\ UNCHANGED <<config, last_value>>

CheckCollectFault(t0, t1) ==
    /\ enabled
    /\ should_check(t0, last_check, interval)
    /\ LET r == CollectError(consecutive_failures, alert_state, alert_count)
       IN /\ consecutive_failures' = r.consecutive_failures
          /\ alert_state' = r.alert_state
          /\ last_call' =
                 [sample |-> Faulted,
                  ret |-> AlertFor(r.emit, name, 0, threshold, t1,
                                   r.consecutive_failures)]
    /\ UNCHANGED <<config, last_check, last_value>>

\* ------------------------------------------------------------------------
\* FileAlertStorage (app/core/storage_file.py)
\* ------------------------------------------------------------------------
\* try: ... except Exception: the body's outcome r, or what the handler
\* yields when the body raised
Caught_reraised(r, handled) == r

Caught(r, handled) == IF r.raised THEN handled ELSE r

\* what a call returns: a value, or an exception instead of one
\* a try block whose except clause logs the exception and goes on: what
\* was done before the exception stays done
Try(o) == Caught(o, [o EXCEPT !.raised = FALSE])

Returns(v) == [value |-> v, raised |-> FALSE]
Raises == [value |-> <<>>, raised |-> TRUE]

\* dictionaries keyed by monitor name
EmptyMap == [m \in {} |-> NoAlert]
Put(map, k, v) == [x \in DOMAIN map \cup {k} |-> IF x = k THEN v ELSE map[x]]
Remove(map, k) == [x \in DOMAIN map \ {k} |-> map[x]]

\* the document FileAlertStorage.__init__ writes when there is no file
EmptyDoc == [active_alerts |-> EmptyMap, alert_history |-> <<>>]

SecondsPerDay == 24 * 60 * 60

\* pruning configurations: absent (the defaults, disabled), or enabled
NoPruning == [enabled |-> FALSE, max_age_days |-> 30, max_alerts |-> 1000]
PruningConfigs == {NoPruning,
                   [enabled |-> TRUE, max_age_days |-> 30, max_alerts |-> 2]}

\* a file that holds valid JSON which is not the document this class
\* writes: json.load returns it, and it has neither of the two keys
ForeignDoc == [alerts |-> <<>>]
HasKeys(data) == {"active_alerts", "alert_history"} \subseteq DOMAIN data

\* what is at file_path when it is not a JSON document: nothing, or the
\* first k chunks of the text json.dump produces for data (k = 0: the
\* empty file open(file_path, "w") leaves)
MissingFile == [missing |-> TRUE]
Truncated(data, k) == [written |-> k, of |-> data]
\* the chunks json.dump writes: the opening of the object, the active
\* alerts, each record of the history, the closing
Chunks(data) == 3 + Len(data.alert_history)
\* open() finds the file and json.load accepts its text
Parses(f) == DOMAIN f \cap {"missing", "written"} = {}

\* outcome of opening and parsing the file, and of rewriting it
ReadOutcomes == {"ok", "fail"}
WriteOutcomes == {"ok", "fail"}

\* _read_data: the parsed document, or the empty default when reading fails
read_data_uncaught(f, rd) == f

read_data(f, rd) == IF rd = "ok" /\ Parses(f) THEN f ELSE EmptyDoc

\* _write_data: the file is replaced, or the error is logged and swallowed
write_data(f, data, wr) == IF wr = "ok" THEN data ELSE f

\* _write_data when the process is terminated in it: before open() the
\* file is as it was, after it the file holds the k chunks written so far
\* (k = -1: before open())
WritePoints(data) == -1..Chunks(data)
write_data_terminated(f, data, k) ==
    IF k = -1 THEN f
    ELSE IF k = Chunks(data) THEN data
    ELSE Truncated(data, k)

\* FileAlertStorage.__init__: the empty document is written when there is
\* no file
FileAlertStorage_init(f, wr) ==
    IF f = MissingFile THEN write_data(f, EmptyDoc, wr) ELSE f

\* list.sort(key=timestamp, reverse=True): stable, newest first
InsertDesc(s, a) ==
    LET k == Cardinality({i \in 1..Len(s) : s[i].timestamp >= a.timestamp})
    IN SubSeq(s, 1, k) \o <<a>> \o SubSeq(s, k + 1, Len(s))

RECURSIVE SortDesc(_)
SortDesc(s) ==
    IF s = <<>> THEN <<>>
    ELSE InsertDesc(SortDesc(SubSeq(s, 1, Len(s) - 1)), s[Len(s)])

\* _prune_alerts at time t
prune_alerts_by_count(data, t, pc) ==
    IF ~pc.enabled THEN data
    ELSE LET sorted == SortDesc(data.alert_history)
             n == IF Len(sorted) < pc.max_alerts
                  THEN Len(sorted) ELSE pc.max_alerts
         IN [data EXCEPT !.alert_history = SubSeq(sorted, 1, n)]

prune_alerts(data, t, pc) ==
    IF ~pc.enabled THEN data
    ELSE LET cutoff_time == t - pc.max_age_days * SecondsPerDay
             Young(a) == a.timestamp > cutoff_time
             sorted == SortDesc(SelectSeq(data.alert_history, Young))
             n == IF Len(sorted) < pc.max_alerts
                  THEN Len(sorted) ELSE pc.max_alerts
         IN [data EXCEPT !.alert_history = SubSeq(sorted, 1, n)]

\* save_alert: the file afterwards, and whether the call raised
save_alert(f, alert, t, pc, rd, wr) ==
    LET data == read_data(f, rd)
        added == [active_alerts |-> Put(data.active_alerts, alert.monitor,
                                        alert),
                  alert_history |-> Append(data.alert_history, alert)]
    IN IF HasKeys(data)
       THEN [file |-> write_data(f, prune_alerts(added, t, pc), wr),
             raised |-> FALSE]
       ELSE [file |-> f, raised |-> TRUE]

\* resolve_alert
resolve_alert_kept(f, monitor_name, resolved_at, t, pc, rd, wr) ==
    LET data == read_data(f, rd)
    IN IF ~HasKeys(data)
       THEN [file |-> f, raised |-> TRUE]
       ELSE IF monitor_name \in DOMAIN data.active_alerts
       THEN LET alert == [resolved_at |-> resolved_at]
                             @@ data.active_alerts[monitor_name]
                moved == [active_alerts |-> data.active_alerts,
                          alert_history |-> Append(data.alert_history, alert)]
            IN [file |-> write_data(f, prune_alerts(moved, t, pc), wr),
                raised |-> FALSE]
       ELSE [file |-> f, raised |-> FALSE]

resolve_alert(f, monitor_name, resolved_at, t, pc, rd, wr) ==
    LET data == read_data(f, rd)
    IN IF ~HasKeys(data)
       THEN [file |-> f, raised |-> TRUE]
       ELSE IF monitor_name \in DOMAIN data.active_alerts
       THEN LET alert == [resolved_at |-> resolved_at]
                             @@ data.active_alerts[monitor_name]
                moved == [active_alerts |-> Remove(data.active_alerts,
                                                   monitor_name),
                          alert_history |-> Append(data.alert_history, alert)]
            IN [file |-> write_data(f, prune_alerts(moved, t, pc), wr),
                raised |-> FALSE]
       ELSE [file |-> f, raised |-> FALSE]

\* get_active_alerts
get_active_alerts(f, rd) ==
    LET data == read_data(f, rd)
    IN IF HasKeys(data)
       THEN {data.active_alerts[m] : m \in DOMAIN data.active_alerts}
       ELSE {}

\* the values passed as time filters: a float of seconds since the epoch,
\* or the datetime datetime.fromtimestamp makes of it
Float(n) == [type |-> "float", value |-> n]
Datetime(n) == [type |-> "datetime", value |-> n]
\* `if monitor_name:` and `if start_time:` on an optional argument: None,
\* the empty string and 0.0 are false, every datetime is true
TruthyStr(arg) == arg # None /\ arg[1] # ""
TruthyTime(arg) == arg # None /\ ~(arg[1].type = "float" /\ arg[1].value = 0)

\* get_alert_history: the filters are applied one after the other; the
\* stored timestamps are floats, and comparing one with a datetime raises
\* TypeError, on which [] is returned
get_alert_history(f, monitor_name, start_time, end_time, rd) ==
    LET data == read_data(f, rd)
        ByMonitor(a) == a.monitor = monitor_name[1]
        FromStart(a) == a.timestamp >= start_time[1].value
        ToEnd(a) == a.timestamp <= end_time[1].value
        alerts1 == IF TruthyStr(monitor_name)
                   THEN SelectSeq(data.alert_history, ByMonitor)
                   ELSE data.alert_history
        raised2 == /\ TruthyTime(start_time)
                   /\ alerts1 # <<>>
                   /\ start_time[1].type # "float"
        alerts2 == IF TruthyTime(start_time) /\ ~raised2
                   THEN SelectSeq(alerts1, FromStart) ELSE alerts1
        raised3 == /\ TruthyTime(end_time)
                   /\ alerts2 # <<>>
                   /\ end_time[1].type # "float"
        alerts3 == IF TruthyTime(end_time) /\ ~raised3
                   THEN SelectSeq(alerts2, ToEnd) ELSE alerts2
    IN Caught(IF ~HasKeys(data) \/ raised2 \/ raised3 THEN Raises
                                                        ELSE Returns(alerts3),
              Returns(<<>>))

\* ------------------------------------------------------------------------
\* PostgresAlertStorage (app/core/storage_postgres.py): the alerts table
\* (app/models.py) as the sequence of its rows in insertion order
\* ------------------------------------------------------------------------
\* outcome of a session: committed, or an exception that is rolled back
DbOutcomes == {"ok", "fail"}

\* the row save_alert adds
Alert(tb, alert_data) ==
    [id |-> Len(tb) + 1,
     hostname |-> alert_data.hostname,
     monitor_name |-> alert_data.monitor,
     alert_state |-> alert_data.state,
     details |-> alert_data,
     created_at |-> alert_data.timestamp,
     resolved_at |-> None]

\* save_alert: a row is inserted; an exception is logged and swallowed
PostgresAlertStorage_save_alert(tb, alert_data, db) ==
    IF db = "ok" THEN Append(tb, Alert(tb, alert_data)) ELSE tb

\* resolve_alert: every unresolved row of the monitor is resolved
PostgresAlertStorage_resolve_alert(tb, monitor_name, resolved_at, db) ==
    IF db = "ok"
    THEN [i \in 1..Len(tb) |->
            IF tb[i].monitor_name = monitor_name /\ tb[i].resolved_at = None
            THEN [tb[i] EXCEPT !.resolved_at = Some(resolved_at),
                               !.alert_state = "RESOLVED"]
            ELSE tb[i]]
    ELSE tb

\* the dictionary the queries build from a row
RowDict(row) ==
    [id |-> row.id, hostname |-> row.hostname, monitor |-> row.monitor_name,
     state |-> row.alert_state, details |-> row.details,
     timestamp |-> row.created_at]

RECURSIVE MapRowDict(_)
MapRowDict(rows) ==
    IF rows = <<>> THEN <<>>
    ELSE <<RowDict(rows[1])>> \o MapRowDict(SubSeq(rows, 2, Len(rows)))

\* get_active_alerts: the unresolved rows, newest first; [] on an exception
PostgresAlertStorage_get_active_alerts(tb, db) ==
    LET Unresolved(row) == row.resolved_at = None
    IN IF db = "ok"
       THEN SortDesc(MapRowDict(SelectSeq(tb, Unresolved)))
       ELSE <<>>

\* ------------------------------------------------------------------------
\* AlertManager (app/core/alerts.py)
\* get_alert_history: the rows that pass the filters, newest first; [] on
\* an exception, which a float compared with the DateTime column is
PostgresAlertStorage_get_alert_history(tb, monitor_name, start_time, end_time, db) ==
    LET ByMonitor(row) == row.monitor_name = monitor_name[1]
        FromStart(row) == row.created_at >= start_time[1].value
        ToEnd(row) == row.created_at <= end_time[1].value
        refused == \/ TruthyTime(start_time) /\ start_time[1].type # "datetime"
                   \/ TruthyTime(end_time) /\ end_time[1].type # "datetime"
        rows1 == IF TruthyStr(monitor_name) THEN SelectSeq(tb, ByMonitor)
                                           ELSE tb
        rows2 == IF TruthyTime(start_time) THEN SelectSeq(rows1, FromStart)
                                           ELSE rows1
        rows3 == IF TruthyTime(end_time) THEN SelectSeq(rows2, ToEnd)
                                         ELSE rows2
    IN Caught(IF db = "ok" /\ ~refused
              THEN Returns(SortDesc(MapRowDict(rows3))) ELSE Raises,
              Returns(<<>>))

\* ------------------------------------------------------------------------
\* socket.gethostname()
hostname == "host1"

\* AlertManager.storage: its class and what it stores
Store(ty, f, tb) == [type |-> ty, file |-> f, table |-> tb]

\* self.storage.save_alert(alert): the storage afterwards, whether the call
\* raised, and whether the alert failed to be stored
storage_save_alert(s, alert, t, pc, rd, wr, db) ==
    IF s.type = "file"
    THEN LET r == save_alert(s.file, alert, t, pc, rd, wr)
         IN [store |-> [s EXCEPT !.file = r.file],
             raised |-> r.raised,
             failed |-> r.raised \/ wr = "fail"]
    ELSE [store |-> [s EXCEPT !.table =
                        PostgresAlertStorage_save_alert(s.table, alert, db)],
          raised |-> FALSE,
          failed |-> db = "fail"]

\* self.storage.resolve_alert(monitor, timestamp); a file that cannot be
\* read is taken for the empty document, in which nothing is to be resolved
storage_resolve_alert(s, monitor_name, resolved_at, t, pc, rd, wr, db) ==
    IF s.type = "file"
    THEN LET r == resolve_alert(s.file, monitor_name, resolved_at, t, pc,
                                rd, wr)
         IN [store |-> [s EXCEPT !.file = r.file],
             raised |-> r.raised,
             failed |-> r.raised \/ rd = "fail" \/ wr = "fail"]
    ELSE [store |-> [s EXCEPT !.table =
                        PostgresAlertStorage_resolve_alert(
                            s.table, monitor_name, resolved_at, db)],
          raised |-> FALSE,
          failed |-> db = "fail"]

\* what a storage call that failed adds to the effects: the error is logged
\* by the storage when it is swallowed, by process_alert when it is raised
Logged(r) == IF r.failed THEN <<"log">> ELSE <<>>

\* outcome of apprise.notify
NotifyOutcomes == {"ok", "fail"}

\* _send_notification: the text is logged and handed to Apprise; an
\* exception there is logged and goes no further
send_notification(nf) ==
    Caught(IF nf = "ok" THEN [effects |-> <<"notify">>, raised |-> FALSE]
                        ELSE [effects |-> <<"notify">>, raised |-> TRUE],
           [effects |-> <<"notify", "notify_error">>, raised |-> FALSE])

\* process_alert, state FIRING
process_firing_notify_first(active, s, alert, t, pc, rd, wr, db, nf) ==
    LET n == send_notification(nf)
        r == storage_save_alert(s, alert, t, pc, rd, wr, db)
    IN IF nf = "fail"
       THEN [active_alerts |-> active, store |-> s, effects |-> n.effects,
             failed |-> FALSE, raised |-> FALSE]
       ELSE [active_alerts |-> Put(active, alert.monitor, alert),
             store |-> r.store,
             effects |-> n.effects \o <<"save_alert">> \o Logged(r),
             failed |-> r.failed, raised |-> FALSE]

\* r is what save_alert did and n what _send_notification did: a save that
\* raised leaves the map and the notification untouched
firing_outcome(active, alert, r, n) ==
    IF r.raised
    THEN [active_alerts |-> active, store |-> r.store,
          effects |-> <<"save_alert">> \o Logged(r),
          failed |-> r.failed, raised |-> TRUE]
    ELSE [active_alerts |-> Put(active, alert.monitor, alert),
          store |-> r.store,
          effects |-> <<"save_alert">> \o Logged(r) \o n.effects,
          failed |-> r.failed, raised |-> n.raised]

process_firing(active, s, alert, t, pc, rd, wr, db, nf) ==
    Try(firing_outcome(active, alert,
                       storage_save_alert(s, alert, t, pc, rd, wr, db),
                       send_notification(nf)))

\* process_alert, state OK
process_ok_always(active, s, alert, t, pc, rd, wr, db, nf) ==
    LET r == storage_resolve_alert(s, alert.monitor, alert.timestamp, t, pc,
                                   rd, wr, db)
    IN [active_alerts |-> Remove(active, alert.monitor),
        store |-> r.store,
        effects |-> <<"resolve_alert", "notify">>,
        failed |-> r.failed,
        raised |-> FALSE]

\* r is what resolve_alert did and n what _send_notification did
ok_outcome(active, alert, r, n) ==
    IF r.raised
    THEN [active_alerts |-> active, store |-> r.store,
          effects |-> <<"resolve_alert">> \o Logged(r),
          failed |-> r.failed, raised |-> TRUE]
    ELSE [active_alerts |-> Remove(active, alert.monitor),
          store |-> r.store,
          effects |-> <<"resolve_alert">> \o Logged(r) \o n.effects,
          failed |-> r.failed, raised |-> n.raised]

process_ok(active, s, alert, t, pc, rd, wr, db, nf) ==
    IF alert.monitor \in DOMAIN active
    THEN Try(ok_outcome(active, alert,
                        storage_resolve_alert(s, alert.monitor,
                                              alert.timestamp, t, pc, rd,
                                              wr, db),
                        send_notification(nf)))
    ELSE [active_alerts |-> active, store |-> s, effects |-> <<>>,
          failed |-> FALSE, raised |-> FALSE]

\* process_alert: the hostname is added, then the state decides
process_alert_error_saved(active, s, alert, t, pc, rd, wr, db, nf) ==
    IF alert = NoAlert
    THEN [alert |-> alert, active_alerts |-> active, store |-> s,
          effects |-> <<>>, failed |-> FALSE, raised |-> FALSE]
    ELSE LET a == alert @@ [hostname |-> hostname]
             r == CASE a.state = "OK" ->
                         process_ok(active, s, a, t, pc, rd, wr, db, nf)
                    [] OTHER ->
                         process_firing(active, s, a, t, pc, rd, wr, db, nf)
         IN [alert |-> a, active_alerts |-> r.active_alerts,
             store |-> r.store, effects |-> r.effects, failed |-> r.failed,
             raised |-> FALSE]

\* the branch of process_alert that the state of the alert a selects, with
\* the alert it was given
by_state(active, s, a, t, pc, rd, wr, db, nf) ==
    [alert |-> a] @@
    CASE a.state = "FIRING" ->
             process_firing(active, s, a, t, pc, rd, wr, db, nf)
      [] a.state = "OK" ->
             process_ok(active, s, a, t, pc, rd, wr, db, nf)
      [] OTHER ->
             [active_alerts |-> active, store |-> s, effects |-> <<>>,
              failed |-> FALSE, raised |-> FALSE]

process_alert(active, s, alert, t, pc, rd, wr, db, nf) ==
    IF alert = NoAlert
    THEN [alert |-> alert, active_alerts |-> active, store |-> s,
          effects |-> <<>>, failed |-> FALSE, raised |-> FALSE]
    ELSE Try(by_state(active, s, alert @@ [hostname |-> hostname], t, pc,
                      rd, wr, db, nf))

\* no process_alert call made
NoCall == [alert |-> NoAlert, active_before |-> EmptyMap, effects |-> <<>>,
           failed |-> FALSE, raised |-> FALSE]

\* the call process_alert(alert) at time t
Processed(r) ==
    /\ active_alerts' = r.active_alerts
    /\ file' = r.store.file
    /\ table' = r.store.table
    /\ pa' = [alert |-> r.alert, active_before |-> active_alerts,
              effects |-> r.effects, failed |-> r.failed,
              raised |-> r.raised]

ProcessAlert(alert, t, rd, wr, db, nf) ==
    Processed(process_alert(active_alerts, Store(storage, file, table),
                            alert, t, pruning_config, rd, wr, db, nf))

\* AlertManager.__init__: the active alerts are loaded from the storage
LoadActive(alerts) ==
    [m \in {a.monitor : a \in alerts} |->
        CHOOSE a \in alerts : a.monitor = m]

\* the same for a list in which a monitor may occur more than once: the
\* last occurrence stays in the map
LoadActiveList(alerts) ==
    [m \in {alerts[i].monitor : i \in 1..Len(alerts)} |->
        alerts[CHOOSE i \in 1..Len(alerts) :
                  /\ alerts[i].monitor = m
                  /\ \A j \in i + 1..Len(alerts) : alerts[j].monitor # m]]

\* self.storage.get_active_alerts(), as a set
storage_get_active_alerts(s, rd, db) ==
    IF s.type = "file"
    THEN get_active_alerts(s.file, rd)
    ELSE LET l == PostgresAlertStorage_get_active_alerts(s.table, db)
         IN {l[i] : i \in 1..Len(l)}

\* AlertManager.get_active_alerts()
AlertManager_get_active_alerts(active) == {active[m] : m \in DOMAIN active}

\* AlertManager.get_alert_history(monitor_name, start_time, end_time): the
\* arguments are handed to the storage as they are
AlertManager_get_alert_history(s, monitor_name, start_time, end_time, rd, db) ==
    Caught(IF s.type = "file"
           THEN get_alert_history(s.file, monitor_name, start_time,
                                  end_time, rd)
           ELSE PostgresAlertStorage_get_alert_history(
                    s.table, monitor_name, start_time, end_time, db),
           Returns(<<>>))

\* self.storage.get_active_alerts() loaded into the map
storage_load_active(s, rd, db) ==
    IF s.type = "file"
    THEN LoadActive(get_active_alerts(s.file, rd))
    ELSE LoadActiveList(PostgresAlertStorage_get_active_alerts(s.table, db))

\* PostgresAlertStorage.__init__: the retry loop's locals
max_retries == 5
retry_delay == 5
\* init_db: the default of its retry_delay parameter
init_db_retry_delay == 5
\* values of init_db's max_retries parameter: its default, and two
InitDbRetries == {2, 5}
\* one connection attempt: connected, OperationalError, another exception
ConnectOutcomes == {"ok", "operational_error", "error"}

\* a retry loop of n attempts before its first attempt
NewLoop(n) ==
    [max_retries |-> n, attempt |-> 0, outcomes |-> <<>>, sleeps |-> <<>>,
     result |-> "running"]

\* one iteration of `for attempt in range(max_retries)` whose connection
\* attempt has outcome o
Attempt_sleep_last(l, o, delay) ==
    LET tried == [l EXCEPT !.outcomes = Append(@, o)]
    IN CASE o = "ok" -> [tried EXCEPT !.result = "ok"]
         [] o = "operational_error" ->
              IF l.attempt < l.max_retries - 1
              THEN [tried EXCEPT !.sleeps = Append(@, delay),
                                 !.attempt = @ + 1]
              ELSE [tried EXCEPT !.sleeps = Append(@, delay),
                                 !.result = "failed"]
         [] OTHER -> [tried EXCEPT !.result = "failed"]

Attempt(l, o, delay) ==
    LET tried == [l EXCEPT !.outcomes = Append(@, o)]
    IN CASE o = "ok" -> [tried EXCEPT !.result = "ok"]
         [] o = "operational_error" ->
              IF l.attempt < l.max_retries - 1
              THEN [tried EXCEPT !.sleeps = Append(@, delay),
                                 !.attempt = @ + 1]
              ELSE [tried EXCEPT !.result = "failed"]
         [] OTHER -> [tried EXCEPT !.result = "failed"]

\* seconds slept by the iteration that led from loop l to loop l2
Slept(l, l2) == IF Len(l2.sleeps) > Len(l.sleeps) THEN Last(l2.sleeps) ELSE 0

\* AlertManager.__init__ with storage type postgres, once the constructor
\* of PostgresAlertStorage has returned or raised
storage_selected_raise(result) ==
    IF result = "ok"
    THEN [storage |-> "postgres", phase |-> "storage_ready"]
    ELSE [storage |-> "none", phase |-> "aborted"]

storage_selected(result) ==
    IF result = "ok"
    THEN [storage |-> "postgres", phase |-> "storage_ready"]
    ELSE [storage |-> "file", phase |-> "storage_ready"]

\* the process before `start` does anything, storage type ty configured
NotStarted(ty, n) ==
    [phase |-> "start", storage_type |-> ty, init_db |-> NewLoop(n),
     conn |-> NewLoop(max_retries)]

\* the process with its monitoring loop running
Started(ty) ==
    [phase |-> "running", storage_type |-> ty,
     init_db |-> NewLoop(max_retries), conn |-> NewLoop(max_retries)]

\* no _prune_alerts call made on its own
NotPruned == [done |-> FALSE, data |-> EmptyDoc]

\* no call made on the storage yet
NoQuery == [op |-> "none"]

\* no iteration of monitor_loop made yet
NoTick == [due |-> FALSE, collect_failed |-> FALSE]

\* the AlertManager and the loop before anything happened
ManagerIdle ==
    /\ tick = NoTick
    /\ active_alerts = EmptyMap
    /\ file = EmptyDoc
    /\ pruning_config = NoPruning
    /\ storage = "file"
    /\ table = <<>>
    /\ pruned = NotPruned
    /\ startup = Started(storage)
    /\ pa = NoCall
    /\ restarts = 0
    /\ query = NoQuery

\* ------------------------------------------------------------------------
\* A Monitor on its own: check() called at arbitrary times
\* ------------------------------------------------------------------------
Init ==
    /\ name = "cpu"
    /\ monitor_class = "CPUMonitor"
    /\ enabled \in BOOLEAN
    /\ interval \in Intervals
    /\ threshold \in Thresholds
    /\ alert_count \in AlertCounts
    /\ MonitorInit
    /\ now = StartTime
    /\ calls = <<>>
    /\ last_call = NoCheck
    /\ ManagerIdle

Check ==
    /\ Len(calls) < MaxCalls
    /\ \/ CheckDisabled /\ now' = now
       \/ CheckNotDue(now) /\ now' = now
       \/ \E v \in Measurements, d \in CollectDurations :
              /\ now + d <= MaxTime
              /\ CheckSample(v, now, now + d)
              /\ now' = now + d
       \/ \E d \in CollectDurations :
              /\ now + d <= MaxTime
              /\ CheckCollectFault(now, now + d)
              /\ now' = now + d
    /\ calls' = Append(calls, last_call')
    /\ UNCHANGED manager

\* a second of wall-clock time passes
Tick ==
    /\ now < MaxTime
    /\ now' = now + 1
    /\ UNCHANGED <<config, monitor_state, calls, last_call, manager>>

Next == Check \/ Tick

Spec == Init /\ [][Next]_vars

\* ------------------------------------------------------------------------
\* monitor_loop (app/cli.py) driving one enabled CPU monitor, and restarts
\* of the process
\* ------------------------------------------------------------------------
MaxLoopTime == 6
\* the classes AlertManager.storage may have
StorageTypes == {"file", "postgres"}
\* the file found at startup: none (the empty document is written), or a
\* foreign one; with the table as storage the file plays no part
InitialFiles(ty) == IF ty = "file" THEN {EmptyDoc, ForeignDoc} ELSE {EmptyDoc}
\* the pruning configuration: it is given to a FileAlertStorage only
InitialPruning(ty) == IF ty = "file" THEN PruningConfigs ELSE {NoPruning}
\* the outcomes of the reads, writes and sessions a storage of class ty makes
IoOutcomes(ty) ==
    IF ty = "file"
    THEN [rd : ReadOutcomes, wr : WriteOutcomes, db : {"ok"}]
    ELSE [rd : {"ok"}, wr : {"ok"}, db : DbOutcomes]
\* the notification channel works while the loop is driven; its failures
\* are drawn where only create_alert is called
NotifierWorks == {"ok"}
MaxRestarts == 1
LoopAlertCounts == 1..2
LoopMeasurements == {70, 90}

InitLoop ==
    /\ name = "cpu"
    /\ monitor_class = "CPUMonitor"
    /\ enabled = TRUE
    /\ interval \in Intervals
    /\ threshold \in {80}
    /\ alert_count \in LoopAlertCounts
    /\ MonitorInit
    /\ now = StartTime
    /\ calls = <<>>
    /\ last_call = NoCheck
    /\ tick = NoTick
    /\ active_alerts = EmptyMap
    /\ storage \in StorageTypes
    /\ file \in InitialFiles(storage)
    /\ pruning_config \in InitialPruning(storage)
    /\ table = <<>>
    /\ pruned = NotPruned
    /\ startup = Started(storage)
    /\ pa = NoCall
    /\ restarts = 0
    /\ query = NoQuery

\* should_check() is False: the monitor is skipped
LoopSkip ==
    /\ ~should_check(now, last_check, interval)
    /\ tick' = [due |-> FALSE, collect_failed |-> FALSE]
    /\ pa' = NoCall
    /\ now' = now + 1
    /\ UNCHANGED <<config, monitor_state, calls, last_call, active_alerts,
                   file, table>>

\* the loop's own collect() raises: logged, check() is not called
LoopCollectFault(d1) ==
    /\ should_check(now, last_check, interval)
    /\ tick' = [due |-> TRUE, collect_failed |-> TRUE]
    /\ pa' = NoCall
    /\ now' = now + d1 + 1
    /\ UNCHANGED <<config, monitor_state, calls, last_call, active_alerts,
                   file, table>>

\* the loop's collect() returns after d1 seconds, check() is called and
\* collects again (d2 seconds); an alert it returns goes to process_alert
LoopCheck(d1, d2, rd, wr, db, nf) ==
    /\ should_check(now, last_check, interval)
    /\ \/ /\ \E v \in LoopMeasurements :
                CheckSample(v, now + d1, now + d1 + d2)
          /\ tick' = [due |-> TRUE, collect_failed |-> FALSE]
       \/ /\ CheckCollectFault(now + d1, now + d1 + d2)
          /\ tick' = [due |-> TRUE, collect_failed |-> TRUE]
    /\ IF last_call'.ret = NoAlert
       THEN /\ pa' = NoCall
            /\ UNCHANGED <<active_alerts, file, table>>
       ELSE ProcessAlert(last_call'.ret, now + d1 + d2, rd, wr, db, nf)
    /\ now' = now + d1 + d2 + 1
    /\ calls' = Append(calls, last_call')

\* one iteration of the while loop, time.sleep(1) included
LoopIteration ==
    /\ now < MaxLoopTime
    /\ \/ LoopSkip
       \/ \E d1 \in CollectDurations : LoopCollectFault(d1)
       \/ \E d1, d2 \in CollectDurations, io \in IoOutcomes(storage),
             nf \in NotifierWorks :
                 LoopCheck(d1, d2, io.rd, io.wr, io.db, nf)
    /\ UNCHANGED <<pruning_config, storage, pruned, startup, restarts,
                   query>>

\* the process is stopped and started again with the same configuration:
\* Monitor.__init__ and AlertManager.__init__ run anew
Restart ==
    /\ restarts < MaxRestarts
    /\ restarts' = restarts + 1
    /\ last_check' = 0
    /\ last_value' = None
    /\ alert_state' = "OK"
    /\ consecutive_failures' = 0
    /\ calls' = <<>>
    /\ last_call' = NoCheck
    /\ tick' = NoTick
    /\ pa' = NoCall
    /\ \E io \in IoOutcomes(storage) :
          active_alerts' =
              storage_load_active(Store(storage, file, table), io.rd, io.db)
    /\ UNCHANGED <<config, now, file, pruning_config, storage, table,
                   pruned, startup, query>>

NextLoop == LoopIteration \/ Restart

SpecLoop == InitLoop /\ [][NextLoop]_vars

\* ------------------------------------------------------------------------
\* The AlertManager on its own: alerts raised through create_alert
\* ------------------------------------------------------------------------
\* number of records the stored history may hold before calls stop
MaxHistory == 2
\* the wall clock of this specification runs from StartTime to here
MaxManagerTime == 3
MonitorNames == {"cpu", "disk"}
AlertStates == {"FIRING", "OK", "ERROR"}

\* the history of a stored document
History(f) == IF HasKeys(f) THEN f.alert_history ELSE <<>>

\* the alert create_alert builds
CreatedAlert(m, st, t) ==
    [monitor |-> m, state |-> st, details |-> "details", timestamp |-> t,
     hostname |-> hostname]

InitManager ==
    /\ name = "cpu"
    /\ monitor_class = "CPUMonitor"
    /\ enabled = TRUE
    /\ interval = 0
    /\ threshold \in {80}
    /\ alert_count \in {3}
    /\ MonitorInit
    /\ now = StartTime
    /\ calls = <<>>
    /\ last_call = NoCheck
    /\ tick = NoTick
    /\ active_alerts = EmptyMap
    /\ storage \in StorageTypes
    /\ file \in InitialFiles(storage)
    /\ pruning_config = NoPruning
    /\ table = <<>>
    /\ pruned = NotPruned
    /\ startup = Started(storage)
    /\ pa = NoCall
    /\ restarts = 0
    /\ query = NoQuery

\* create_alert(monitor, state, details)
CreateAlert(m, st, rd, wr, db, nf) ==
    /\ Len(History(file)) + Len(table) < MaxHistory
    /\ ProcessAlert(CreatedAlert(m, st, now), now, rd, wr, db, nf)
    /\ UNCHANGED <<config, monitor_state, now, calls, last_call, tick,
                   pruning_config, storage, pruned, startup, restarts,
                   query>>

\* a second passes between two calls
ManagerTick ==
    /\ now < MaxManagerTime
    /\ now' = now + 1
    /\ UNCHANGED <<config, monitor_state, calls, last_call, manager>>

NextManager ==
    \/ \E m \in MonitorNames, st \in AlertStates,
          io \in IoOutcomes(storage), nf \in NotifierWorks :
              CreateAlert(m, st, io.rd, io.wr, io.db, nf)
    \/ ManagerTick
    \/ Restart

SpecManager == InitManager /\ [][NextManager]_vars

\* create_alert called again and again, the notification channel working or
\* failing
NextNotify ==
    \E m \in MonitorNames, st \in AlertStates,
       io \in IoOutcomes(storage), nf \in NotifyOutcomes :
           CreateAlert(m, st, io.rd, io.wr, io.db, nf)

SpecNotify == InitManager /\ [][NextNotify]_vars

\* the AlertManager over an empty alerts file, with every read, write and
\* notification succeeding
\* number of records the stored history may hold before calls stop
MaxFaultFreeHistory == 3

InitFaultFree ==
    /\ name = "cpu"
    /\ monitor_class = "CPUMonitor"
    /\ enabled = TRUE
    /\ interval = 0
    /\ threshold \in {80}
    /\ alert_count \in {3}
    /\ MonitorInit
    /\ now = StartTime
    /\ calls = <<>>
    /\ last_call = NoCheck
    /\ tick = NoTick
    /\ active_alerts = EmptyMap
    /\ storage = "file"
    /\ file = EmptyDoc
    /\ pruning_config \in PruningConfigs
    /\ table = <<>>
    /\ pruned = NotPruned
    /\ startup = Started(storage)
    /\ pa = NoCall
    /\ restarts = 0
    /\ query = NoQuery

\* process_alert(alert) for an alert of monitor m in state st
FaultFreeAlert(m, st) ==
    /\ Len(History(file)) < MaxFaultFreeHistory
    /\ ProcessAlert(CreatedAlert(m, st, now), now, "ok", "ok", "ok", "ok")
    /\ UNCHANGED <<config, monitor_state, now, calls, last_call, tick,
                   pruning_config, storage, pruned, startup, restarts,
                   query>>

NextFaultFree ==
    \/ \E m \in MonitorNames, st \in AlertStates : FaultFreeAlert(m, st)
    \/ ManagerTick

SpecFaultFree == InitFaultFree /\ [][NextFaultFree]_vars

\* ------------------------------------------------------------------------
\* FileAlertStorage._prune_alerts on its own: one call on a stored document
\* ------------------------------------------------------------------------
\* number of records in the history that is pruned
MaxPruneLen == 3
\* ages of the records, in seconds: one and two days, a second less than
\* thirty days, thirty days, forty days
PruneAges == {SecondsPerDay, 2 * SecondsPerDay, 30 * SecondsPerDay - 1,
              30 * SecondsPerDay, 40 * SecondsPerDay}
\* time.time() at the call: a day later than the oldest record
PruneNow ==
    SecondsPerDay + CHOOSE a \in PruneAges : \A b \in PruneAges : b <= a
\* the records of the history that is pruned
PruneRecords ==
    {[monitor |-> m, state |-> "FIRING", timestamp |-> PruneNow - a,
      hostname |-> hostname] : m \in MonitorNames, a \in PruneAges}
\* the pruning configurations: disabled, or 30 days and one or two records
PrunePruningConfigs ==
    {NoPruning} \cup {[enabled |-> TRUE, max_age_days |-> 30,
                        max_alerts |-> k] : k \in 1..2}

InitPrune ==
    /\ name = "cpu"
    /\ monitor_class = "CPUMonitor"
    /\ enabled = TRUE
    /\ interval = 0
    /\ threshold \in {80}
    /\ alert_count \in {3}
    /\ MonitorInit
    /\ now = PruneNow
    /\ calls = <<>>
    /\ last_call = NoCheck
    /\ tick = NoTick
    /\ active_alerts = EmptyMap
    /\ storage = "file"
    /\ \E n \in 0..MaxPruneLen :
          file \in [active_alerts : {EmptyMap},
                    alert_history : [1..n -> PruneRecords]]
    /\ pruning_config \in PrunePruningConfigs
    /\ table = <<>>
    /\ pruned = NotPruned
    /\ startup = Started(storage)
    /\ pa = NoCall
    /\ restarts = 0
    /\ query = NoQuery

\* data = self._prune_alerts(data)
Prune ==
    /\ ~pruned.done
    /\ pruned' = [done |-> TRUE,
                  data |-> prune_alerts(file, now, pruning_config)]
    /\ UNCHANGED <<config, monitor_state, now, calls, last_call, tick,
                   active_alerts, file, pruning_config, storage, table,
                   startup, pa, restarts, query>>

NextPrune == Prune

SpecPrune == InitPrune /\ [][NextPrune]_vars

\* ------------------------------------------------------------------------
\* A FileAlertStorage with pruning enabled: one save_alert or resolve_alert
\* on a stored document that holds old and young records
\* ------------------------------------------------------------------------
\* length of the stored history
MaxPrunedLen == 2
\* ages of the stored active alerts: a day, forty days
PrunedActiveAges == {SecondsPerDay, 40 * SecondsPerDay}
\* the stored active_alerts: each monitor absent, or active since one of
\* these ages
PrunedActiveAlerts ==
    UNION {{f \in [S -> PruneRecords] :
                \A m \in S : /\ f[m].monitor = m
                             /\ PruneNow - f[m].timestamp \in PrunedActiveAges}
           : S \in SUBSET MonitorNames}

InitPruned ==
    /\ name = "cpu"
    /\ monitor_class = "CPUMonitor"
    /\ enabled = TRUE
    /\ interval = 0
    /\ threshold \in {80}
    /\ alert_count \in {3}
    /\ MonitorInit
    /\ now = PruneNow
    /\ calls = <<>>
    /\ last_call = NoCheck
    /\ tick = NoTick
    /\ active_alerts = EmptyMap
    /\ storage = "file"
    /\ \E n \in 0..MaxPrunedLen :
          file \in [active_alerts : PrunedActiveAlerts,
                    alert_history : [1..n -> PruneRecords]]
    /\ pruning_config \in PrunePruningConfigs \ {NoPruning}
    /\ table = <<>>
    /\ pruned = NotPruned
    /\ startup = Started(storage)
    /\ pa = NoCall
    /\ restarts = 0
    /\ query = NoQuery

\* storage.save_alert(alert)
PrunedSaveAlert(m, rd, wr) ==
    /\ query = NoQuery
    /\ LET r == save_alert(file, CreatedAlert(m, "FIRING", now), now,
                           pruning_config, rd, wr)
       IN /\ file' = r.file
          /\ query' = [op |-> "save_alert", monitor |-> m, before |-> file,
                       rd |-> rd, wr |-> wr, raised |-> r.raised]
    /\ UNCHANGED <<config, monitor_state, now, calls, last_call, tick,
                   active_alerts, pruning_config, storage, table, pruned,
                   startup, pa, restarts>>

\* storage.resolve_alert(monitor_name, resolved_at)
PrunedResolveAlert(m, rd, wr) ==
    /\ query = NoQuery
    /\ LET r == resolve_alert(file, m, now, now, pruning_config, rd, wr)
       IN /\ file' = r.file
          /\ query' = [op |-> "resolve_alert", monitor |-> m,
                       before |-> file, rd |-> rd, wr |-> wr,
                       raised |-> r.raised]
    /\ UNCHANGED <<config, monitor_state, now, calls, last_call, tick,
                   active_alerts, pruning_config, storage, table, pruned,
                   startup, pa, restarts>>

NextPruned ==
    \/ \E m \in MonitorNames, rd \in ReadOutcomes, wr \in WriteOutcomes :
          PrunedSaveAlert(m, rd, wr)
    \/ \E m \in MonitorNames, rd \in ReadOutcomes, wr \in WriteOutcomes :
          PrunedResolveAlert(m, rd, wr)

SpecPruned == InitPruned /\ [][NextPruned]_vars

\* ------------------------------------------------------------------------
\* Starting the process: `start` (app/cli.py), init_db (app/db.py),
\* monitor_loop, AlertManager.__init__ and PostgresAlertStorage.__init__
\* ------------------------------------------------------------------------
InitStartup ==
    /\ name = "cpu"
    /\ monitor_class = "CPUMonitor"
    /\ enabled = TRUE
    /\ interval \in Intervals
    /\ threshold \in {80}
    /\ alert_count \in LoopAlertCounts
    /\ MonitorInit
    /\ now = StartTime
    /\ calls = <<>>
    /\ last_call = NoCheck
    /\ tick = NoTick
    /\ active_alerts = EmptyMap
    /\ storage = "none"
    /\ file \in InitialFiles("file")
    /\ pruning_config \in PruningConfigs
    /\ table = <<>>
    /\ pruned = NotPruned
    /\ \E ty \in StorageTypes, n \in InitDbRetries :
          startup = NotStarted(ty, n)
    /\ pa = NoCall
    /\ restarts = 0
    /\ query = NoQuery

\* what starting the process leaves alone
startup_frame == <<config, monitor_state, calls, last_call, tick, file,
                   pruning_config, table, pruned, pa, restarts, query>>

\* `start`: with the postgres type the database is initialised first
StartCommand ==
    /\ startup.phase = "start"
    /\ startup' = [startup EXCEPT !.phase =
                      IF startup.storage_type = "postgres"
                      THEN "init_db" ELSE "monitor_loop"]
    /\ UNCHANGED <<now, storage, active_alerts, startup_frame>>

\* init_db: one iteration of its retry loop; `start` goes on to
\* monitor_loop whether it returned success or failure
InitDbAttempt(o) ==
    /\ startup.phase = "init_db"
    /\ LET l == Attempt(startup.init_db, o, init_db_retry_delay)
       IN /\ startup' = [startup EXCEPT
                            !.init_db = l,
                            !.phase = IF l.result = "running"
                                      THEN "init_db" ELSE "monitor_loop"]
          /\ now' = now + Slept(startup.init_db, l)
    /\ UNCHANGED <<storage, active_alerts, startup_frame>>

\* monitor_loop constructs the AlertManager, which selects the storage
MonitorLoop ==
    /\ startup.phase = "monitor_loop"
    /\ IF startup.storage_type = "postgres"
       THEN /\ startup' = [startup EXCEPT !.phase = "connect"]
            /\ UNCHANGED storage
       ELSE /\ startup' = [startup EXCEPT !.phase = "storage_ready"]
            /\ storage' = "file"
    /\ UNCHANGED <<now, active_alerts, startup_frame>>

\* PostgresAlertStorage.__init__: one iteration of its retry loop; when it
\* raises, AlertManager.__init__ takes a FileAlertStorage instead
StorageAttempt(o) ==
    /\ startup.phase = "connect"
    /\ LET l == Attempt(startup.conn, o, retry_delay)
           sel == storage_selected(l.result)
       IN /\ startup' = [startup EXCEPT
                            !.conn = l,
                            !.phase = IF l.result = "running"
                                      THEN "connect" ELSE sel.phase]
          /\ storage' = IF l.result = "running" THEN storage
                                                ELSE sel.storage
          /\ now' = now + Slept(startup.conn, l)
    /\ UNCHANGED <<active_alerts, startup_frame>>

\* AlertManager.__init__ loads the active alerts; monitor_loop enters its
\* loop
FinishInit ==
    /\ startup.phase = "storage_ready"
    /\ \E io \in IoOutcomes(storage) :
          active_alerts' =
              storage_load_active(Store(storage, file, table), io.rd, io.db)
    /\ startup' = [startup EXCEPT !.phase = "running"]
    /\ UNCHANGED <<now, storage, startup_frame>>

NextStartup ==
    \/ StartCommand
    \/ \E o \in ConnectOutcomes : InitDbAttempt(o)
    \/ MonitorLoop
    \/ \E o \in ConnectOutcomes : StorageAttempt(o)
    \/ FinishInit

SpecStartup == InitStartup /\ [][NextStartup]_vars

\* ------------------------------------------------------------------------
\* The Monitor classes (app/monitors, and the earlier ones of the same
\* names in app/core/metrics.py): collect and check_threshold, and check()
\* called on a Monitor of each class
\* ------------------------------------------------------------------------
\* number of check() calls
MaxSourceCalls == 2
\* the classes monitor_loop constructs, and the two of app/core/metrics.py
\* that differ from them
MonitorClasses == {"CPUMonitor", "MemoryMonitor", "DiskMonitor",
                   "PingMonitor", "metrics.DiskMonitor",
                   "metrics.PingMonitor"}
\* the name and the default threshold monitor_loop gives each class
NameOf(cls) ==
    CASE cls = "CPUMonitor" -> "cpu"
      [] cls = "MemoryMonitor" -> "memory"
      [] cls \in {"DiskMonitor", "metrics.DiskMonitor"} -> "disk"
      [] OTHER -> "ping"
DefaultThreshold(cls) ==
    CASE cls \in {"CPUMonitor", "MemoryMonitor"} -> 80
      [] cls \in {"DiskMonitor", "metrics.DiskMonitor"} -> 85
      [] OTHER -> 200

\* the hosts pinged, and what _ping returns for one: the round trip in
\* milliseconds, or None when there is no reply
Targets == {"a", "b"}
PingTimes == {None, Some(50), Some(250)}
\* total and available bytes as /proc/meminfo or psutil give them; a total
\* of 0 is what a failed read leaves
MemoryTotals == {<<0, 0>>, <<100, 10>>, <<100, 30>>}

\* what a collect() of each class meets
Environments(cls) ==
    CASE cls = "CPUMonitor" ->
             [percent : {70, 90}]
      [] cls = "MemoryMonitor" ->
             [container : BOOLEAN, meminfo : MemoryTotals,
              psutil : MemoryTotals]
      [] cls \in {"DiskMonitor", "metrics.DiskMonitor"} ->
             [usage : {"ok", "PermissionError", "FileNotFoundError"},
              percent : {70, 90}]
      [] OTHER ->
             [replies : [Targets -> PingTimes]]

\* whether the system gave the measurement: the memory totals that are
\* used are not 0, the disk path can be read
Obtained(cls, env) ==
    CASE cls = "MemoryMonitor" ->
             IF env.container /\ env.meminfo[1] # 0 THEN TRUE
             ELSE env.psutil[1] # 0
      [] cls \in {"DiskMonitor", "metrics.DiskMonitor"} -> env.usage = "ok"
      [] OTHER -> TRUE

\* (used / total) * 100
Percent(totals) == ((totals[1] - totals[2]) * 100) \div totals[1]

\* MemoryMonitor.collect: in a container /proc/meminfo is read, and psutil
\* is asked when that gives no total; 0.0 is returned when there is none
MemoryMonitor_collect(env) ==
    LET totals == IF env.container /\ env.meminfo[1] # 0 THEN env.meminfo
                                                          ELSE env.psutil
    IN IF totals[1] = 0 THEN Returns(0) ELSE Returns(Percent(totals))

\* DiskMonitor.collect: what psutil.disk_usage raises is not caught
DiskMonitor_collect(env) ==
    IF env.usage = "ok" THEN Returns(env.percent) ELSE Raises

\* DiskMonitor.collect of app/core/metrics.py: 0.0 on PermissionError
metrics_DiskMonitor_collect(env) ==
    IF env.usage = "ok" THEN Returns(env.percent)
    ELSE IF env.usage = "PermissionError" THEN Returns(0)
    ELSE Raises

\* collect of each class
collect(cls, env) ==
    CASE cls = "CPUMonitor" -> Returns(env.percent)
      [] cls = "MemoryMonitor" -> MemoryMonitor_collect(env)
      [] cls = "DiskMonitor" -> DiskMonitor_collect(env)
      [] cls = "metrics.DiskMonitor" -> metrics_DiskMonitor_collect(env)
      [] OTHER -> Returns(env.replies)

\* PingMonitor.check_threshold: any(ping_time and ping_time > threshold)
PingMonitor_check_threshold(value, thr) ==
    \E t \in DOMAIN value :
        value[t] # None /\ value[t][1] # 0 /\ value[t][1] > thr

\* PingMonitor.check_threshold of app/core/metrics.py: a latency of None
\* or one above the threshold
metrics_PingMonitor_check_threshold(value, thr) ==
    \E t \in DOMAIN value : value[t] = None \/ value[t][1] > thr

\* check_threshold of each class
class_check_threshold(cls, value, thr) ==
    CASE cls = "PingMonitor" -> PingMonitor_check_threshold(value, thr)
      [] cls = "metrics.PingMonitor" ->
             metrics_PingMonitor_check_threshold(value, thr)
      [] OTHER -> check_threshold(value, thr)

InitSources ==
    /\ monitor_class \in MonitorClasses
    /\ name = NameOf(monitor_class)
    /\ enabled = TRUE
    /\ interval = 0
    /\ threshold = DefaultThreshold(monitor_class)
    /\ alert_count \in LoopAlertCounts
    /\ MonitorInit
    /\ now = StartTime
    /\ calls = <<>>
    /\ last_call = NoCheck
    /\ ManagerIdle

\* check() on a Monitor of class monitor_class, collect() meeting env
CheckSource(env) ==
    /\ Len(calls) < MaxSourceCalls
    /\ enabled
    /\ should_check(now, last_check, interval)
    /\ LET c == collect(monitor_class, env)
           r == IF c.raised
                THEN CollectError(consecutive_failures, alert_state,
                                  alert_count)
                ELSE IF class_check_threshold(monitor_class, c.value,
                                              threshold)
                THEN Breach(consecutive_failures, alert_state, alert_count)
                ELSE NoBreach(consecutive_failures, alert_state)
       IN /\ last_check' = IF c.raised THEN last_check ELSE now
          /\ last_value' = IF c.raised THEN last_value ELSE Some(c.value)
          /\ consecutive_failures' = r.consecutive_failures
          /\ alert_state' = r.alert_state
          /\ last_call' =
                 [sample |-> IF c.raised THEN Faulted ELSE Sampled(c.value),
                  ret |-> AlertFor(r.emit, name, c.value, threshold, now,
                                   r.consecutive_failures),
                  obtained |-> Obtained(monitor_class, env)]
    /\ calls' = Append(calls, last_call')
    /\ UNCHANGED <<config, now, manager>>

NextSources == \E env \in Environments(monitor_class) : CheckSource(env)

SpecSources == InitSources /\ [][NextSources]_vars

\* ------------------------------------------------------------------------
\* An AlertStorage and the query methods of the AlertManager on their own:
\* save_alert, resolve_alert, get_active_alerts and get_alert_history called
\* in any order, and the process terminated while the file is written
\* ------------------------------------------------------------------------
\* number of records the stored history may hold before saving stops
MaxStored == 2
\* the wall clock of this specification runs from StartTime to here
MaxStorageTime == 3
\* the file found when the storage is constructed: none, or the empty
\* document of an earlier run
StoredFiles(ty) == IF ty = "file" THEN {MissingFile, EmptyDoc} ELSE {EmptyDoc}
InitStorage ==
    /\ name = "cpu"
    /\ monitor_class = "CPUMonitor"
    /\ enabled = TRUE
    /\ interval = 0
    /\ threshold \in {80}
    /\ alert_count \in {3}
    /\ MonitorInit
    /\ now = StartTime
    /\ calls = <<>>
    /\ last_call = NoCheck
    /\ tick = NoTick
    /\ active_alerts = EmptyMap
    /\ storage \in StorageTypes
    /\ file \in StoredFiles(storage)
    /\ pruning_config = NoPruning
    /\ table = <<>>
    /\ pruned = NotPruned
    /\ startup = Started(storage)
    /\ pa = NoCall
    /\ restarts = 0
    /\ query = NoQuery

\* what the calls on the storage leave alone
storage_frame == <<config, monitor_state, now, calls, last_call, tick,
                   active_alerts, pruning_config, storage, pruned, startup,
                   pa, restarts>>

\* the storage object exists and the process runs
Constructed == query.op \notin {"none", "terminated"}

\* the stored history is full
StorageFull == Len(History(file)) + Len(table) >= MaxStored

\* FileAlertStorage(file_path, pruning_config), at the start of a process
StorageConstruct(wr) ==
    /\ ~Constructed
    /\ file' = IF storage = "file" THEN FileAlertStorage_init(file, wr)
                                   ELSE file
    /\ query' = [op |-> "init", before |-> Store(storage, file, table),
                 wr |-> wr]
    /\ UNCHANGED <<table, storage_frame>>

\* storage.save_alert(alert)
StorageSaveAlert(m, rd, wr, db) ==
    /\ Constructed
    /\ ~StorageFull
    /\ LET r == storage_save_alert(Store(storage, file, table),
                                   CreatedAlert(m, "FIRING", now), now,
                                   pruning_config, rd, wr, db)
       IN /\ file' = r.store.file
          /\ table' = r.store.table
          /\ query' = [op |-> "save_alert", monitor |-> m, t |-> now,
                       before |-> Store(storage, file, table),
                       rd |-> rd, wr |-> wr, raised |-> r.raised]
    /\ UNCHANGED storage_frame

\* storage.resolve_alert(monitor_name, resolved_at)
StorageResolveAlert(m, rd, wr, db) ==
    /\ Constructed
    /\ ~StorageFull
    /\ LET r == storage_resolve_alert(Store(storage, file, table), m, now,
                                      now, pruning_config, rd, wr, db)
       IN /\ file' = r.store.file
          /\ table' = r.store.table
          /\ query' = [op |-> "resolve_alert", monitor |-> m,
                       before |-> Store(storage, file, table),
                       rd |-> rd, wr |-> wr, raised |-> r.raised]
    /\ UNCHANGED storage_frame

\* storage.get_active_alerts()
StorageGetActiveAlerts(rd, db) ==
    /\ Constructed
    /\ query' = [op |-> "get_active_alerts",
                 before |-> Store(storage, file, table), rd |-> rd,
                 result |-> storage_get_active_alerts(
                                Store(storage, file, table), rd, db)]
    /\ UNCHANGED <<file, table, storage_frame>>

\* storage.get_alert_history(), no filter given
StorageGetAlertHistory(rd, db) ==
    /\ Constructed
    /\ query' = [op |-> "get_alert_history",
                 before |-> Store(storage, file, table), rd |-> rd,
                 result |-> AlertManager_get_alert_history(
                                Store(storage, file, table), None, None,
                                None, rd, db).value]
    /\ UNCHANGED <<file, table, storage_frame>>

\* save_alert of a FileAlertStorage, the process being terminated at point
\* k of its _write_data
SaveAlertTerminated(m, rd, k) ==
    /\ Constructed
    /\ ~StorageFull
    /\ storage = "file"
    /\ LET data == read_data(file, rd)
           added == [active_alerts |->
                         Put(data.active_alerts, m,
                             CreatedAlert(m, "FIRING", now)),
                     alert_history |->
                         Append(data.alert_history,
                                CreatedAlert(m, "FIRING", now))]
           new == prune_alerts(added, now, pruning_config)
       IN /\ HasKeys(data)
          /\ k \in WritePoints(new)
          /\ file' = write_data_terminated(file, new, k)
          /\ query' = [op |-> "terminated", before |-> file, new |-> new]
    /\ UNCHANGED <<table, storage_frame>>

\* a second passes between two calls
StorageTick ==
    /\ now < MaxStorageTime
    /\ now' = now + 1
    /\ UNCHANGED <<config, monitor_state, calls, last_call, manager>>

NextStorage ==
    \/ \E wr \in WriteOutcomes : StorageConstruct(wr)
    \/ \E m \in MonitorNames, io \in IoOutcomes(storage) :
          StorageSaveAlert(m, io.rd, io.wr, io.db)
    \/ \E m \in MonitorNames, io \in IoOutcomes(storage) :
          StorageResolveAlert(m, io.rd, io.wr, io.db)
    \/ \E io \in IoOutcomes(storage) : StorageGetActiveAlerts(io.rd, io.db)
    \/ \E io \in IoOutcomes(storage) : StorageGetAlertHistory(io.rd, io.db)
    \/ \E m \in MonitorNames, rd \in ReadOutcomes, k \in -1..MaxStored + 3 :
          SaveAlertTerminated(m, rd, k)
    \/ StorageTick

SpecStorage == InitStorage /\ [][NextStorage]_vars

\* ------------------------------------------------------------------------
\* The sessions of a PostgresAlertStorage: what each operation does with the
\* session it opens, wherever it fails
\* ------------------------------------------------------------------------
\* number of rows the table may hold before saving stops
MaxSessionRows == 2
SessionOps ==
    {"save_alert", "resolve_alert", "get_active_alerts", "get_alert_history"}
\* the operations that end their try block with session.commit()
Commits(op) == op \in {"save_alert", "resolve_alert"}
\* the statement of an operation that raises: none, _get_session(), the
\* statement that builds the row or runs the query, session.commit()
FailurePoints(op) ==
    {"none", "get_session", "statement"}
        \cup (IF Commits(op) THEN {"commit"} ELSE {})

\* the try block: what was done on the session when it ends
session_try(op, point) ==
    CASE point = "get_session" -> <<>>
      [] point = "statement" -> <<"open">>
      [] point = "commit" -> <<"open", "statement">>
      [] OTHER -> IF Commits(op) THEN <<"open", "statement", "commit">>
                                 ELSE <<"open", "statement">>

\* the except block: `if session: session.rollback()` in the operations
\* that write
session_except(op, point, done) ==
    IF point # "none" /\ Commits(op) /\ done # <<>>
    THEN <<"rollback">> ELSE <<>>

\* the finally block: `if session: session.close()`
session_finally_on_success(point, done) ==
    IF done # <<>> /\ point = "none" THEN <<"close">> ELSE <<>>

session_finally(point, done) ==
    IF done # <<>> THEN <<"close">> ELSE <<>>

\* everything an operation does on its session, in order
session_events(op, point) ==
    session_try(op, point)
        \o session_except(op, point, session_try(op, point))
        \o session_finally(point, session_try(op, point))

\* the outcome the storage operators are given for a failure point
DbOutcome(point) == IF point = "none" THEN "ok" ELSE "fail"

InitSession ==
    /\ name = "cpu"
    /\ monitor_class = "CPUMonitor"
    /\ enabled = TRUE
    /\ interval = 0
    /\ threshold \in {80}
    /\ alert_count \in {3}
    /\ MonitorInit
    /\ now = StartTime
    /\ calls = <<>>
    /\ last_call = NoCheck
    /\ tick = NoTick
    /\ active_alerts = EmptyMap
    /\ storage = "postgres"
    /\ file = EmptyDoc
    /\ pruning_config = NoPruning
    /\ table = <<>>
    /\ pruned = NotPruned
    /\ startup = Started(storage)
    /\ pa = NoCall
    /\ restarts = 0
    /\ query = NoQuery

\* storage.save_alert(alert), failing at point
SessionSaveAlert(m, point) ==
    /\ Len(table) < MaxSessionRows
    /\ table' = PostgresAlertStorage_save_alert(
                    table, CreatedAlert(m, "FIRING", now), DbOutcome(point))
    /\ query' = [op |-> "save_alert", monitor |-> m, point |-> point,
                 before |-> table,
                 session |-> session_events("save_alert", point)]
    /\ UNCHANGED <<file, storage_frame>>

\* storage.resolve_alert(monitor_name, resolved_at), failing at point
SessionResolveAlert(m, point) ==
    /\ table' = PostgresAlertStorage_resolve_alert(table, m, now,
                                                   DbOutcome(point))
    /\ query' = [op |-> "resolve_alert", monitor |-> m, point |-> point,
                 before |-> table,
                 session |-> session_events("resolve_alert", point)]
    /\ UNCHANGED <<file, storage_frame>>

\* storage.get_active_alerts(), failing at point
SessionGetActiveAlerts(point) ==
    /\ query' = [op |-> "get_active_alerts", point |-> point,
                 before |-> table,
                 result |-> PostgresAlertStorage_get_active_alerts(
                                table, DbOutcome(point)),
                 session |-> session_events("get_active_alerts", point)]
    /\ UNCHANGED <<file, table, storage_frame>>

\* storage.get_alert_history(), failing at point
SessionGetAlertHistory(point) ==
    /\ query' = [op |-> "get_alert_history", point |-> point,
                 before |-> table,
                 result |-> PostgresAlertStorage_get_alert_history(
                                table, None, None, None,
                                DbOutcome(point)).value,
                 session |-> session_events("get_alert_history", point)]
    /\ UNCHANGED <<file, table, storage_frame>>

NextSession ==
    \/ \E m \in MonitorNames, p \in FailurePoints("save_alert") :
          SessionSaveAlert(m, p)
    \/ \E m \in MonitorNames, p \in FailurePoints("resolve_alert") :
          SessionResolveAlert(m, p)
    \/ \E p \in FailurePoints("get_active_alerts") :
          SessionGetActiveAlerts(p)
    \/ \E p \in FailurePoints("get_alert_history") :
          SessionGetAlertHistory(p)
    \/ StorageTick

SpecSession == InitSession /\ [][NextSession]_vars

\* ------------------------------------------------------------------------
\* AlertManager.get_alert_history on its own: one call, with any filters, on
\* a history that save_alert built
\* ------------------------------------------------------------------------
\* number of alerts saved before the call
MaxQueried == 2
\* the times at which the alerts were raised
QueryTimes == StartTime..StartTime + 2
\* the alerts saved
QueryAlerts ==
    {CreatedAlert(m, "FIRING", t) : m \in MonitorNames, t \in QueryTimes}
\* the filters given to get_alert_history: none, a monitor name; none, the
\* epoch or a time between the alerts as a float, that time as a datetime
MonitorFilters == {None, Some("cpu")}
TimeFilters == {None, Some(Float(0)), Some(Float(StartTime + 1)),
                Some(Datetime(StartTime + 1))}

\* the storage after save_alert was called with each alert in turn
RECURSIVE SavedAll(_, _)
SavedAll(s, alerts) ==
    IF alerts = <<>> THEN s
    ELSE SavedAll(storage_save_alert(s, alerts[1], alerts[1].timestamp,
                                     NoPruning, "ok", "ok", "ok").store,
                  Tail(alerts))

InitHistory ==
    /\ name = "cpu"
    /\ monitor_class = "CPUMonitor"
    /\ enabled = TRUE
    /\ interval = 0
    /\ threshold \in {80}
    /\ alert_count \in {3}
    /\ MonitorInit
    /\ now = StartTime + 2
    /\ calls = <<>>
    /\ last_call = NoCheck
    /\ tick = NoTick
    /\ active_alerts = EmptyMap
    /\ storage \in StorageTypes
    /\ \E n \in 0..MaxQueried :
          \E alerts \in [1..n -> QueryAlerts] :
              /\ \A i \in 1..n - 1 :
                    alerts[i].timestamp <= alerts[i + 1].timestamp
              /\ LET s == SavedAll(Store(storage, EmptyDoc, <<>>), alerts)
                 IN file = s.file /\ table = s.table
    /\ pruning_config = NoPruning
    /\ pruned = NotPruned
    /\ startup = Started(storage)
    /\ pa = NoCall
    /\ restarts = 0
    /\ query = NoQuery

\* alert_manager.get_alert_history(monitor_name, start_time, end_time)
GetAlertHistory(m, st, en, rd, db) ==
    /\ query = NoQuery
    /\ query' = [op |-> "get_alert_history", monitor |-> m, start |-> st,
                 end |-> en, rd |-> rd, db |-> db,
                 result |-> AlertManager_get_alert_history(
                                Store(storage, file, table), m, st, en,
                                rd, db).value]
    /\ UNCHANGED <<file, table, storage_frame>>

NextHistory ==
    \E m \in MonitorFilters, st \in TimeFilters, en \in TimeFilters,
       io \in IoOutcomes(storage) :
           GetAlertHistory(m, st, en, io.rd, io.db)

SpecHistory == InitHistory /\ [][NextHistory]_vars

\* ------------------------------------------------------------------------
\* Properties of Monitor.check
\* ------------------------------------------------------------------------
\* the calls of check() in which a measurement was collected and evaluated
IsSample(c) == c.sample.kind = "value"
Samples == SelectSeq(calls, IsSample)

Breaching(c) == check_threshold(c.sample.value, threshold)

\* length of the run of consecutive breaching samples that ends at sample i
RECURSIVE RunLen(_, _)
RunLen(s, i) ==
    IF i = 0 THEN 0
    ELSE IF Breaching(s[i]) THEN 1 + RunLen(s, i - 1) ELSE 0

\* the position in a run at which consecutive_failures reaches alert_count
FireAt == IF alert_count > 1 THEN alert_count ELSE 1

\* C1: in every maximal run of consecutive breaching samples exactly the
\* sample on which the run reaches alert_count returns a FIRING alert, the
\* first non-breaching sample after a run that reached alert_count returns
\* an OK alert, and every other sample returns no alert.
C1_OneFiringOneOkPerEpisode ==
    \A i \in 1..Len(Samples) :
        Samples[i].ret.state =
            IF Breaching(Samples[i])
            THEN (IF RunLen(Samples, i) = FireAt THEN "FIRING" ELSE "NONE")
            ELSE (IF RunLen(Samples, i - 1) >= FireAt THEN "OK" ELSE "NONE")

\* an episode that fired, stayed breaching for another sample, and recovered
C1_Witness ==
    \E i \in 1..Len(Samples) :
        /\ i + 2 <= Len(Samples)
        /\ Samples[i].ret.state = "FIRING"
        /\ Breaching(Samples[i + 1])
        /\ Samples[i + 1].ret.state = "NONE"
        /\ Samples[i + 2].ret.state = "OK"

\* C2: check() never returns a FIRING alert while consecutive_failures,
\* the current sample counted, is below alert_count.
C2_NoFiringBelowAlertCount ==
    (Len(calls) > 0 /\ Last(calls).ret.state = "FIRING")
        => consecutive_failures >= alert_count

\* a FIRING alert returned by a monitor that needs three breaches
C2_Witness ==
    /\ Len(calls) > 0
    /\ Last(calls).ret.state = "FIRING"
    /\ alert_count = 3

\* C3: after a due check() whose sample does not breach the threshold,
\* consecutive_failures is 0.
C3_ResetOnNonBreach ==
    (Len(calls) > 0 /\ IsSample(Last(calls)) /\ ~Breaching(Last(calls)))
        => consecutive_failures = 0

\* a non-breaching sample that follows a breaching one below alert_count
C3_Witness ==
    /\ Len(calls) > 1
    /\ IsSample(Last(calls)) /\ ~Breaching(Last(calls))
    /\ IsSample(calls[Len(calls) - 1]) /\ Breaching(calls[Len(calls) - 1])
    /\ calls[Len(calls) - 1].ret.state = "NONE"
    /\ alert_count > 1

\* the scenario of C4: threshold 80, alert_count 3, interval 0, fed
\* 85, 82, 90, 70 by four successive check() calls
C4_Scenario ==
    /\ name = "cpu" /\ enabled
    /\ threshold = 80 /\ alert_count = 3 /\ interval = 0
    /\ Len(calls) = 4
    /\ calls[1].sample = Sampled(85)
    /\ calls[2].sample = Sampled(82)
    /\ calls[3].sample = Sampled(90)
    /\ calls[4].sample = Sampled(70)

\* C4: in that scenario the four calls return no alert, no alert, a FIRING
\* alert with value 90 and consecutive_failures 3, an OK alert with value 70.
C4_CpuScenario ==
    C4_Scenario =>
        /\ calls[1].ret = NoAlert
        /\ calls[2].ret = NoAlert
        /\ calls[3].ret.state = "FIRING"
        /\ calls[3].ret.value = 90
        /\ calls[3].ret.consecutive_failures = 3
        /\ calls[4].ret.state = "OK"
        /\ calls[4].ret.value = 70

C4_Witness == C4_Scenario

\* C5: a check() in which collect() fails leaves consecutive_failures and
\* alert_state as they were before the call.
C5_FaultKeepsDebounceState ==
    [][(Len(calls') = Len(calls) + 1 /\ Last(calls').sample = Faulted)
         => (consecutive_failures' = consecutive_failures
             /\ alert_state' = alert_state)]_vars

\* a collection fault while the monitor is FIRING
C5_Witness ==
    /\ Len(calls) > 0
    /\ Last(calls).sample = Faulted
    /\ alert_state = "FIRING"
    /\ consecutive_failures > 0

\* C6: every due check() of an enabled monitor whose collect() fails
\* returns an ERROR alert.
C6_ErrorOnEveryFault ==
    \A i \in 1..Len(calls) :
        calls[i].sample = Faulted => calls[i].ret.state = "ERROR"

\* two faults in a row, both reported, on a monitor that debounces breaches
C6_Witness ==
    /\ Len(calls) > 1
    /\ Last(calls).sample = Faulted
    /\ Last(calls).ret.state = "ERROR"
    /\ calls[Len(calls) - 1].sample = Faulted
    /\ calls[Len(calls) - 1].ret.state = "ERROR"
    /\ alert_count > 1

\* ------------------------------------------------------------------------
\* Properties of monitor_loop and AlertManager.process_alert
\* ------------------------------------------------------------------------
Range(s) == {s[i] : i \in 1..Len(s)}

\* C7: on every iteration in which the monitor is due and its metric source
\* fails to collect, an ERROR alert of that monitor is handed to
\* process_alert.
C7_ErrorHandedOnEveryFault ==
    (tick.due /\ tick.collect_failed)
        => (pa.alert.state = "ERROR" /\ pa.alert.monitor = name)

\* C8: a FIRING alert for a monitor already in the active-alert map causes
\* no save_alert call and no notification.
C8_NoRepeatForActiveMonitor ==
    (pa.alert.state = "FIRING" /\ pa.alert.monitor \in DOMAIN pa.active_before)
        => pa.effects = <<>>

\* every check() since the process started sampled a breaching value
BreachingSinceStart ==
    /\ Len(calls) > 0
    /\ \A i \in 1..Len(calls) : IsSample(calls[i]) /\ Breaching(calls[i])

\* C9: after a restart with an active record of the monitor in the storage,
\* a breach that goes on across the restart causes no second save_alert and
\* no second FIRING notification for it.
C9_NoRefireAcrossRestart ==
    (/\ restarts > 0
     /\ BreachingSinceStart
     /\ pa.alert.state = "FIRING"
     /\ pa.alert.monitor \in DOMAIN pa.active_before)
        => ("save_alert" \notin Range(pa.effects)
            /\ "notify" \notin Range(pa.effects))

\* C10: an OK alert for a monitor that is not in the active-alert map makes
\* no storage call, sends no notification and leaves the map unchanged.
C10_OkForInactiveIsNoOp ==
    (pa.alert.state = "OK" /\ pa.alert.monitor \notin DOMAIN pa.active_before)
        => (pa.effects = <<>> /\ active_alerts = pa.active_before)

\* such an OK alert arriving while another monitor is active
C10_Witness ==
    /\ pa.alert.state = "OK"
    /\ pa.alert.monitor \notin DOMAIN pa.active_before
    /\ pa.active_before # EmptyMap
    /\ HasKeys(file)
    /\ pa.alert.monitor \in DOMAIN file.active_alerts

\* ------------------------------------------------------------------------
\* ERROR alerts in AlertManager.process_alert
\* ------------------------------------------------------------------------
\* C11: an alert with state ERROR given to process_alert is notified.
C11_ErrorIsNotified ==
    pa.alert.state = "ERROR" => "notify" \in Range(pa.effects)

\* C12: processing an ERROR alert leaves the active-alert map unchanged and
\* calls neither save_alert nor resolve_alert, whether or not the monitor
\* has an active alert.
C12_ErrorTouchesNothing ==
    pa.alert.state = "ERROR"
        => /\ active_alerts = pa.active_before
           /\ "save_alert" \notin Range(pa.effects)
           /\ "resolve_alert" \notin Range(pa.effects)

\* an ERROR alert of a monitor that has an active alert, while another
\* monitor has none
C12_Witness ==
    /\ pa.alert.state = "ERROR"
    /\ pa.alert.monitor \in DOMAIN pa.active_before
    /\ DOMAIN pa.active_before # MonitorNames

\* ------------------------------------------------------------------------
\* Storage failures while a FIRING alert is processed
\* ------------------------------------------------------------------------
\* C13: when save_alert fails while process_alert handles a FIRING alert,
\* the failure is logged and the FIRING notification is still sent, with
\* either storage.
C13_FailedSaveStillNotified ==
    (pa.alert.state = "FIRING" /\ pa.failed)
        => ("log" \in Range(pa.effects) /\ "notify" \in Range(pa.effects))

\* C14: when save_alert fails while process_alert handles a FIRING alert,
\* the monitor is in the active-alert map with that alert once process_alert
\* has returned, with either storage.
C14_FailedSaveStillRecorded ==
    (pa.alert.state = "FIRING" /\ pa.failed)
        => /\ pa.alert.monitor \in DOMAIN active_alerts
           /\ active_alerts[pa.alert.monitor] = pa.alert

\* ------------------------------------------------------------------------
\* What the storage holds
\* ------------------------------------------------------------------------
\* the records of monitor m the storage holds as active: the entry of the
\* file's active_alerts, the rows of the table whose resolved_at is null
ActiveRecords(m) ==
    IF storage = "file"
    THEN IF HasKeys(file) /\ m \in DOMAIN file.active_alerts
         THEN {file.active_alerts[m]} ELSE {}
    ELSE {i \in 1..Len(table) :
            table[i].monitor_name = m /\ table[i].resolved_at = None}

\* C15: whatever alerts were processed, restarts included, the storage holds
\* at most one record with resolved_at = null for any one monitor.
C15_OneActiveRecordPerMonitor ==
    \A m \in MonitorNames : Cardinality(ActiveRecords(m)) <= 1

\* what get_active_alerts() may return when the map is active and the
\* storage is s: the AlertManager's result, and the storage's under every
\* outcome of its read
Returned(active, s) ==
    AlertManager_get_active_alerts(active)
        \cup UNION {storage_get_active_alerts(s, io.rd, io.db) :
                        io \in IoOutcomes(s.type)}

\* a returned record stands for a resolved alert: it carries resolved_at,
\* or the row it was built from has resolved_at set
IsResolved(r, s) ==
    \/ "resolved_at" \in DOMAIN r
    \/ "id" \in DOMAIN r /\ s.table[r.id].resolved_at # None

\* monitor m is in no result of get_active_alerts()
Absent(m, active, s) == \A r \in Returned(active, s) : r.monitor # m

\* the last process_alert call resolved the alert of its monitor in the
\* storage
ResolvedByLastCall ==
    /\ pa.alert.state = "OK"
    /\ "resolve_alert" \in Range(pa.effects)
    /\ ~pa.failed

\* C16: get_active_alerts() of the AlertManager and of the storage returns
\* no record whose resolved_at is set; a monitor whose alert has been
\* resolved is absent from the results, and stays absent until a FIRING
\* alert of it is processed.
C16_NoResolvedInActive ==
    /\ [](\A r \in Returned(active_alerts, Store(storage, file, table)) :
             ~IsResolved(r, Store(storage, file, table)))
    /\ [](ResolvedByLastCall
             => Absent(pa.alert.monitor, active_alerts,
                       Store(storage, file, table)))
    /\ [][\A m \in MonitorNames :
             (/\ Absent(m, active_alerts, Store(storage, file, table))
              /\ ~(pa'.alert.state = "FIRING" /\ pa'.alert.monitor = m))
                 => Absent(m, active_alerts',
                           Store(storage', file', table'))]_vars

\* an alert has just been resolved, its resolved record is in the storage,
\* and another monitor is still active
C16_Witness ==
    /\ ResolvedByLastCall
    /\ AlertManager_get_active_alerts(active_alerts) # {}
    /\ \/ \E i \in 1..Len(History(file)) :
              /\ History(file)[i].monitor = pa.alert.monitor
              /\ "resolved_at" \in DOMAIN History(file)[i]
       \/ \E i \in 1..Len(table) :
              /\ table[i].monitor_name = pa.alert.monitor
              /\ table[i].resolved_at # None

\* the history records storage s holds: the file's alert_history, the rows
\* of the table
StoredHistory(s) == IF s.type = "file" THEN History(s.file) ELSE s.table

\* C17: a FIRING-then-OK episode leaves one record in the history: the one
\* save_alert created gets resolved_at set by resolve_alert, so a call that
\* resolves an alert adds no record to the history.
C17_ResolveAddsNoRecord ==
    [][(/\ pa'.alert.state = "OK"
        /\ "resolve_alert" \in Range(pa'.effects)
        /\ ~pa'.failed)
          => Len(StoredHistory(Store(storage', file', table')))
                 = Len(StoredHistory(Store(storage, file, table)))]_vars

\* ------------------------------------------------------------------------
\* Properties of FileAlertStorage._prune_alerts
\* ------------------------------------------------------------------------
\* number of occurrences of record r in the sequence s
Count(s, r) == Cardinality({i \in 1..Len(s) : s[i] = r})

\* the record is younger than max_age_days at time t
Younger(r, t, pc) == t - r.timestamp < pc.max_age_days * SecondsPerDay

\* the records of the sequence s that are younger than max_age_days
YoungOf(s, t, pc) == LET Y(r) == Younger(r, t, pc) IN SelectSeq(s, Y)

\* C18: with pruning enabled, what a prune keeps is the max_alerts most
\* recent (by timestamp) of the records younger than max_age_days, all of
\* them when they are fewer; no record of max_age_days or older is kept,
\* whatever the count limit.
C18_PruneKeepsMostRecentYoung ==
    (pruned.done /\ pruning_config.enabled)
        => LET inp == YoungOf(file.alert_history, now, pruning_config)
               out == pruned.data.alert_history
           IN /\ \A i \in 1..Len(out) : Younger(out[i], now, pruning_config)
              /\ Len(out) = IF Len(inp) < pruning_config.max_alerts
                            THEN Len(inp) ELSE pruning_config.max_alerts
              /\ \A r \in PruneRecords : Count(out, r) <= Count(inp, r)
              /\ \A r \in PruneRecords :
                    Count(out, r) < Count(inp, r)
                        => \A j \in 1..Len(out) :
                              out[j].timestamp >= r.timestamp
              /\ pruned.data.active_alerts = file.active_alerts

\* the example: max_age_days 30, max_alerts 2, records aged 40, 2 and 1
\* days; the 1-day and the 2-day record are left
C18_Witness ==
    /\ pruned.done
    /\ pruning_config = [enabled |-> TRUE, max_age_days |-> 30,
                         max_alerts |-> 2]
    /\ Len(file.alert_history) = 3
    /\ now - file.alert_history[1].timestamp = 40 * SecondsPerDay
    /\ now - file.alert_history[2].timestamp = 2 * SecondsPerDay
    /\ now - file.alert_history[3].timestamp = SecondsPerDay
    /\ pruned.data.alert_history
           = <<file.alert_history[3], file.alert_history[2]>>

\* ------------------------------------------------------------------------
\* Properties of the start of the process
\* ------------------------------------------------------------------------
\* the retry loop l has ended and every attempt it made found the database
\* unreachable
Unreachable(l) ==
    /\ l.result # "running"
    /\ \A i \in 1..Len(l.outcomes) : l.outcomes[i] = "operational_error"

\* C19: a connection retry loop against a database that is unreachable on
\* every attempt makes exactly max_retries attempts, sleeps the fixed delay
\* between two attempts and not after the last, and then fails.
C19_ExactlyMaxRetriesAttempts ==
    /\ Unreachable(startup.conn)
          => /\ Len(startup.conn.outcomes) = max_retries
             /\ Len(startup.conn.sleeps) = max_retries - 1
             /\ \A i \in 1..Len(startup.conn.sleeps) :
                   startup.conn.sleeps[i] = retry_delay
             /\ startup.conn.result = "failed"
    /\ Unreachable(startup.init_db)
          => /\ Len(startup.init_db.outcomes) = startup.init_db.max_retries
             /\ Len(startup.init_db.sleeps)
                    = startup.init_db.max_retries - 1
             /\ \A i \in 1..Len(startup.init_db.sleeps) :
                   startup.init_db.sleeps[i] = init_db_retry_delay
             /\ startup.init_db.result = "failed"

\* init_db with max_retries = 2 gave up after two attempts, and the
\* constructor of PostgresAlertStorage after its own
C19_Witness ==
    /\ Unreachable(startup.init_db)
    /\ startup.init_db.max_retries = 2
    /\ Len(startup.init_db.outcomes) = 2
    /\ Unreachable(startup.conn)
    /\ startup.phase = "storage_ready"

SavedOnEmpty(m, t) ==
    [active_alerts |-> Put(EmptyMap, m, CreatedAlert(m, "FIRING", t)),
     alert_history |-> <<CreatedAlert(m, "FIRING", t)>>]

C22_TerminatedWriteIsAtomic ==
    (query.op = "terminated" /\ Parses(query.before))
        => file \in {query.before, query.new}

WithNotification(m, st, io, nf) ==
    process_alert(active_alerts, Store(storage, file, table),
                  CreatedAlert(m, st, now), now, pruning_config,
                  io.rd, io.wr, io.db, nf)

\* C24: a notification that fails is swallowed: process_alert does not
\* raise, it leaves the storage and the active-alert map as it leaves them
\* when the notification succeeds, and the call in which the notification
\* failed leaves the monitor's fields alone
C24_NotificationFailureChangesNothing ==
    /\ [](/\ ~pa.raised
          /\ \A m \in MonitorNames, st \in AlertStates,
                io \in IoOutcomes(storage) :
                LET failing == WithNotification(m, st, io, "fail")
                    working == WithNotification(m, st, io, "ok")
                IN /\ ~failing.raised
                   /\ failing.active_alerts = working.active_alerts
                   /\ failing.store = working.store)
    /\ [][("notify_error" \in Range(pa'.effects))
             => UNCHANGED <<last_check, last_value, alert_state,
                            consecutive_failures>>]_vars

\* a FIRING alert was stored and recorded while its notification failed
C24_Witness ==
    /\ "notify_error" \in Range(pa.effects)
    /\ pa.alert.state = "FIRING"
    /\ ~pa.failed
    /\ pa.alert.monitor \in DOMAIN active_alerts
    /\ active_alerts[pa.alert.monitor] = pa.alert
    /\ Len(History(file)) + Len(table) > 0

\* ------------------------------------------------------------------------
\* Properties of the Monitor classes
\* ------------------------------------------------------------------------
\* C25: a ping sample in which a target has no reply (None), or in which a
\* latency is above the threshold, is a breach, whatever the other targets
\* returned: the check() that evaluated it counted a failure
C25_NoReplyIsBreach ==
    (/\ monitor_class \in {"PingMonitor", "metrics.PingMonitor"}
     /\ last_call.sample.kind = "value"
     /\ \E t \in Targets :
           \/ last_call.sample.value[t] = None
           \/ last_call.sample.value[t][1] > threshold)
        => consecutive_failures >= 1

\* C27: when the system does not give a Monitor its measurement, collect()
\* raises and check() returns an ERROR alert; no 0 is evaluated in place of
\* the measurement
C27_NoMeasurementIsError ==
    (calls # <<>> /\ ~last_call.obtained)
        => (last_call.sample = Faulted /\ last_call.ret.state = "ERROR")

\* ------------------------------------------------------------------------
\* Further properties of Monitor.check
\* ------------------------------------------------------------------------
\* C26: a monitor with enabled = False never collects and never returns an
\* alert: every check() call on it returns None without a sample and leaves
\* last_check, last_value, alert_state and consecutive_failures as they were
C26_DisabledMonitorDoesNothing ==
    [][(~enabled /\ Len(calls') = Len(calls) + 1)
         => /\ last_call'.sample = Skipped
            /\ last_call'.ret = NoAlert
            /\ UNCHANGED <<last_check, last_value, alert_state,
                           consecutive_failures>>]_vars

\* a disabled monitor called twice, a second apart, long after last_check
C26_Witness ==
    /\ ~enabled
    /\ Len(calls) >= 2
    /\ now > StartTime
    /\ now - last_check >= interval
    /\ last_value = None

\* C29: for a monitor with alert_count >= 1, alert_state is FIRING exactly
\* when consecutive_failures >= alert_count, in every reachable state
C29_FiringIffCountReached ==
    alert_count >= 1
        => (alert_state = "FIRING" <=> consecutive_failures >= alert_count)

\* a FIRING monitor that met a further breach and then a collection fault
C29_Witness ==
    /\ alert_count >= 1
    /\ alert_state = "FIRING"
    /\ consecutive_failures > alert_count
    /\ Len(calls) > 0
    /\ Last(calls).sample = Faulted

\* C30: check() called on an enabled monitor before interval seconds have
\* passed since last_check returns None and leaves last_check, last_value,
\* alert_state and consecutive_failures as they were; a call made later
\* collects; so consecutive_failures changes only in calls that are at
\* least interval after last_check
C30_OneSamplePerInterval ==
    [][(enabled /\ Len(calls') = Len(calls) + 1)
         => /\ (now - last_check < interval)
                 => /\ last_call'.sample = Skipped
                    /\ last_call'.ret = NoAlert
                    /\ UNCHANGED <<last_check, last_value, alert_state,
                                   consecutive_failures>>
            /\ (now - last_check >= interval)
                 => last_call'.sample # Skipped
            /\ (consecutive_failures' # consecutive_failures)
                 => now - last_check >= interval]_vars

\* a breach was counted, and the call made right after it was too early
C30_Witness ==
    /\ enabled
    /\ interval > 0
    /\ Len(calls) >= 2
    /\ Breaching(calls[Len(calls) - 1])
    /\ Last(calls).sample = Skipped
    /\ now - last_check < interval
    /\ consecutive_failures = 1

\* ------------------------------------------------------------------------
\* Properties of get_alert_history
\* ------------------------------------------------------------------------
\* every record of the stored history, as the storage returns records
AllHistory(s) == IF s.type = "file" THEN History(s.file)
                                    ELSE MapRowDict(s.table)

\* the records of the history that satisfy each filter that was given
Matching(s, m, st, en) ==
    LET Match(a) ==
            /\ m # None => a.monitor = m[1]
            /\ st # None => a.timestamp >= st[1].value
            /\ en # None => a.timestamp <= en[1].value
    IN SelectSeq(AllHistory(s), Match)

\* C28: get_alert_history(monitor, start, end) returns exactly the records
\* of the history that satisfy every filter given (monitor equal, timestamp
\* >= start, timestamp <= end), and the whole history when none is given
C28_HistoryIsFiltered ==
    (query.op = "get_alert_history" /\ query.rd = "ok" /\ query.db = "ok")
        => SortDesc(query.result) =
               SortDesc(Matching(Store(storage, file, table), query.monitor,
                                 query.start, query.end))

\* ------------------------------------------------------------------------
\* Properties of the alert sequence of one Monitor
\* ------------------------------------------------------------------------
\* the calls of check() that returned a FIRING or an OK alert, in order
IsTransition(c) == c.ret.state \in {"FIRING", "OK"}
Transitions == SelectSeq(calls, IsTransition)

\* C33: the FIRING and OK alerts returned by check() alternate and begin
\* with FIRING, whatever ERROR alerts and skipped calls lie between them
C33_FiringAndOkAlternate ==
    \A i \in 1..Len(Transitions) :
        Transitions[i].ret.state = IF i % 2 = 1 THEN "FIRING" ELSE "OK"

\* FIRING, then an ERROR alert, then OK and FIRING again
C33_Witness ==
    /\ Len(calls) = 4
    /\ calls[1].ret.state = "FIRING"
    /\ calls[2].ret.state = "ERROR"
    /\ calls[3].ret.state = "OK"
    /\ calls[4].ret.state = "FIRING"

\* C34: with alert_count >= 1 every FIRING alert returned by check()
\* carries consecutive_failures equal to alert_count, also when collection
\* faults lie between the breaching samples
C34_FiringCarriesAlertCount ==
    alert_count >= 1
        => \A i \in 1..Len(calls) :
               calls[i].ret.state = "FIRING"
                   => calls[i].ret.consecutive_failures = alert_count

\* a FIRING alert whose two breaching samples have a collection fault
\* between them
C34_Witness ==
    /\ alert_count = 2
    /\ Len(calls) >= 3
    /\ Last(calls).ret.state = "FIRING"
    /\ calls[Len(calls) - 1].sample = Faulted
    /\ IsSample(calls[Len(calls) - 2])
    /\ Breaching(calls[Len(calls) - 2])

\* C39: a check() whose collect() raised leaves last_check and last_value
\* as they were, so that should_check() is still true afterwards and the
\* next call of check() is not skipped; last_check changes only in a call
\* whose collect() returned a value
C39_FaultLeavesLastCheck ==
    /\ [](\A i \in 1..Len(calls) - 1 :
              (enabled /\ calls[i].sample = Faulted)
                  => calls[i + 1].sample # Skipped)
    /\ [][/\ (Len(calls') = Len(calls) + 1 /\ last_call'.sample = Faulted)
               => /\ UNCHANGED <<last_check, last_value>>
                  /\ should_check(now', last_check', interval)
          /\ (last_check' # last_check)
               => /\ Len(calls') = Len(calls) + 1
                  /\ IsSample(last_call')]_vars

\* a collection fault later than a sample, and a sample taken right after
\* the fault, less than interval after it
C39_Witness ==
    /\ interval > 0
    /\ Len(calls) = 3
    /\ IsSample(calls[1])
    /\ calls[2].sample = Faulted
    /\ calls[2].ret.timestamp > StartTime
    /\ IsSample(calls[3])
    /\ last_check - calls[2].ret.timestamp < interval

\* ------------------------------------------------------------------------
\* Properties of the AlertManager without faults
\* ------------------------------------------------------------------------
\* C32: from an empty alerts file and with no storage or notification
\* fault, after any sequence of FIRING, OK and ERROR alerts the monitors in
\* the in-memory active-alert map are the keys of the stored active_alerts
C32_MapMatchesStore ==
    DOMAIN active_alerts = DOMAIN file.active_alerts

\* two monitors fired and one of them recovered; the last alert was
\* processed
C32_Witness ==
    /\ DOMAIN active_alerts = {"disk"}
    /\ Len(file.alert_history) = 3
    /\ pa.alert.state = "OK"
    /\ pa.alert.monitor = "cpu"
    /\ DOMAIN pa.active_before = {"cpu", "disk"}

\* ------------------------------------------------------------------------
\* Properties of a recovery in the monitoring loop
\* ------------------------------------------------------------------------
\* check() has returned an OK alert since the process started
Recovered == \E i \in 1..Len(calls) : calls[i].ret.state = "OK"

\* C35: a monitor whose OK alert went to process_alert is taken out of the
\* in-memory active-alert map, also when resolve_alert failed on that OK:
\* it is not in the map while the Monitor is in state OK
C35_RecoveredMonitorLeavesMap ==
    (Recovered /\ alert_state = "OK") => name \notin DOMAIN active_alerts

\* ------------------------------------------------------------------------
\* Properties of save_alert and resolve_alert
\* ------------------------------------------------------------------------
\* C36: when save_alert has returned without raising, a get_active_alerts()
\* that follows at once on the same storage, and that works, returns a
\* record of the monitor
C36_ReturnedSaveIsRecorded ==
    (query.op = "save_alert" /\ ~query.raised)
        => \E a \in storage_get_active_alerts(Store(storage, file, table),
                                              "ok", "ok") :
               a.monitor = query.monitor

\* s is a prefix of t
IsPrefix(s, t) == Len(s) <= Len(t) /\ SubSeq(t, 1, Len(s)) = s

\* C37: with pruning disabled, save_alert and resolve_alert of the file
\* storage leave every record of alert_history as it is and append at most
\* one, also when the file could not be read
C37_HistoryOnlyGrows ==
    (/\ query.op \in {"save_alert", "resolve_alert"}
     /\ storage = "file"
     /\ ~pruning_config.enabled)
        => /\ IsPrefix(History(query.before.file), History(file))
           /\ Len(History(file)) <= Len(History(query.before.file)) + 1

\* ------------------------------------------------------------------------
\* Properties of save_alert and resolve_alert with pruning enabled
\* ------------------------------------------------------------------------
\* the call rewrote the file
Wrote ==
    /\ query.op \in {"save_alert", "resolve_alert"}
    /\ ~query.raised
    /\ query.wr = "ok"
    /\ \/ query.op = "save_alert"
       \/ query.monitor \in
              DOMAIN read_data(query.before, query.rd).active_alerts

\* the active alerts the call has to leave in place
KeptActive ==
    IF query.op = "resolve_alert"
    THEN Remove(query.before.active_alerts, query.monitor)
    ELSE query.before.active_alerts

\* C38: with pruning enabled, after a save_alert or resolve_alert that
\* rewrote the file alert_history holds at most max_alerts records, none of
\* them with a timestamp at or before now - max_age_days; pruning takes
\* nothing out of active_alerts: an active alert older than max_age_days is
\* still returned by get_active_alerts()
C38_PruningBoundsHistoryOnly ==
    /\ Wrote =>
          /\ Len(file.alert_history) <= pruning_config.max_alerts
          /\ \A i \in 1..Len(file.alert_history) :
                 file.alert_history[i].timestamp >
                     now - pruning_config.max_age_days * SecondsPerDay
    /\ (Wrote /\ query.rd = "ok") =>
          \A m \in DOMAIN KeptActive \ {query.monitor} :
              KeptActive[m] \in get_active_alerts(file, "ok")

\* an alert was saved on a document with a full history in which another
\* monitor has been active for forty days: the history was cut, the old
\* active alert is still returned
C38_Witness ==
    /\ Wrote
    /\ query.op = "save_alert"
    /\ query.rd = "ok"
    /\ Len(query.before.alert_history) = MaxPrunedLen
    /\ Len(file.alert_history) < MaxPrunedLen
    /\ \E a \in get_active_alerts(file, "ok") :
           /\ a.monitor # query.monitor
           /\ a.timestamp <= now - pruning_config.max_age_days * SecondsPerDay

\* ------------------------------------------------------------------------
\* Properties of the sessions of the relational storage
\* ------------------------------------------------------------------------
\* the number of times event e occurs in the sequence s
Occurrences(s, e) == Cardinality({i \in 1..Len(s) : s[i] = e})

\* C31: save_alert, resolve_alert, get_active_alerts and get_alert_history
\* close the session they opened before they return, whether they succeed
\* or fail and wherever they fail; a write that failed is rolled back, and
\* leaves the table as it was
C31_SessionClosedOnEveryPath ==
    query.op \in SessionOps =>
        /\ Occurrences(query.session, "open") <= 1
        /\ "open" \in Range(query.session)
              => /\ Last(query.session) = "close"
                 /\ Occurrences(query.session, "close") = 1
        /\ (Commits(query.op) /\ query.point \in {"statement", "commit"})
              => /\ "rollback" \in Range(query.session)
                 /\ "commit" \notin Range(query.session)
                 /\ table = query.before

\* a save_alert whose commit failed, on a table that holds a row
C31_Witness ==
    /\ query.op = "save_alert"
    /\ query.point = "commit"
    /\ query.session = <<"open", "statement", "rollback", "close">>
    /\ Len(table) = 1

====
